---------------------------- MODULE Spec2Model ----------------------------
(***************************************************************************)
(* The agentic orchestration engine of backend/services/llm_service.py:    *)
(* generate_llm_response, determine_intent, process_agentic_query and the  *)
(* synchronous bridge process_chat_request.                                *)
(*                                                                         *)
(* A text is a sequence of symbols.  A symbol is one ASCII character, or   *)
(* one bracketed chunk "[ar:...]" standing for a run of Arabic letters     *)
(* (which str.lower, str.strip and str.replace leave unchanged).  A        *)
(* question is a sequence of words; the substring tests of the code        *)
(* (`"..." in question`) are word membership.                              *)
(*                                                                         *)
(* Three specifications share the module.  Spec is one invocation of the   *)
(* engine, step by step.  BridgeSpec is several concurrent invocations of  *)
(* process_chat_request on the worker threads of the server, each one      *)
(* reduced to what it does to event loops and to process-wide state.       *)
(* HttpSpec is the middleware stack of backend/main.py with the rate       *)
(* limiter of backend/security_middleware.py.  Each specification leaves   *)
(* the variables of the other two at their initial values.                 *)
(***************************************************************************)
EXTENDS Naturals, Sequences, FiniteSets

VARIABLES
    pc,                 \* position of the invocation (see PcValues)
    question,           \* argument of process_chat_request
    user_id,            \* argument of process_chat_request
    is_demo,            \* argument of process_chat_request
    effective_user_id,  \* llm_service.py:358
    loop,               \* the invocation's event loop: none/running/closed
    intent,             \* local `intent` of process_agentic_query
    classified,         \* normalized classifier text (llm_service.py:177)
    collab,             \* what the collaborator call of the branch returned
    response,           \* LLMResponse returned by process_agentic_query
    exc,                \* exception propagating out of process_agentic_query
    result,             \* dict returned by process_chat_request
    calls,              \* history: the external calls made, in order
    outcomes,           \* history: how each call of `calls` ended
    replies,            \* history: what each call of `calls` received
    cascades,           \* history: number of re-routings to general_chat
    producer,           \* history: the branch that built `response`
    returned,           \* history: number of values returned to the caller
    \* concurrent invocations of process_chat_request (BridgeSpec)
    inv,                \* per invocation: position, thread, local `loop`
    sys_path,           \* the process-wide sys.path (llm_service.py:339)
    loops,              \* every event loop constructed so far, with its state
    thread_loop,        \* per worker thread: the loop of set_event_loop
    \* the middleware stack and the rate limiter (HttpSpec)
    now,                \* time.time()
    request_counts,     \* security_middleware.py:43
    auth_attempts,      \* security_middleware.py:44
    request,            \* the request in flight
    layer,              \* the middleware that holds the request or response
    http_response,      \* the response travelling outwards
    admitted,           \* history: per IP, when _check_rate_limit said True
    auth_passed,        \* history: per IP, when an auth request was let through
    \* the route handlers of main.py (ChatSpec, AdminSpec)
    chat,               \* the /chat request being handled
    engine_log,         \* history: the calls of process_chat_request
    users,              \* the committed rows of the users table
    reg                 \* per call of register_initial_admin: its position

engineVars ==
    <<pc, question, user_id, is_demo, effective_user_id, loop, intent,
      classified, collab, response, exc, result, calls, outcomes, replies,
      cascades, producer, returned>>

bridgeVars == <<inv, sys_path, loops, thread_loop>>

httpVars ==
    <<now, request_counts, auth_attempts, request, layer, http_response,
      admitted, auth_passed>>

chatVars == <<chat, engine_log>>

adminVars == <<users, reg>>

routeVars == <<chatVars, adminVars>>

vars == <<engineVars, bridgeVars, httpVars, routeVars>>

-----------------------------------------------------------------------------
(* Bounds of the model *)

\* longest question, in words
MaxLen == 2

\* longest skill list the Graph Querier returns
MaxSkills == 2

-----------------------------------------------------------------------------
(* Values *)

NONE == "None"

SeqsUpTo(S, n) == UNION {[1..k -> S] : k \in 0..n}

\* the two heuristic keywords of llm_service.py:306
KW_SKILLS == "maharat"
KW_COURSE == "muqarrar"

\* the canonical questions of the FAQ table, each one word of the model
FAQ_Q1 == "[ar:mata akhir yawm lil-hadhf wal-idafa?]"
FAQ_Q2 == "[ar:ma hiya darajat al-najah fi maddat 101?]"

Words == {KW_SKILLS, KW_COURSE, "gpa", FAQ_Q1, FAQ_Q2}

Questions == SeqsUpTo(Words, MaxLen) \ {<<>>}

UserIds == {"S1", "S2", ""}

FAQ_DATABASE ==
    [q \in {<<FAQ_Q1>>, <<FAQ_Q2>>} |->
        IF q = <<FAQ_Q1>>
        THEN <<"[ar:akhir yawm huwa 20 fibrayir 2025]", ".">>
        ELSE <<"[ar:darajat]", " ", "C", " ", "[ar:aw]", " ",
               "6", "0", "%", ".">>]

\* intent names, as texts
QUERY_RAG == <<"q","u","e","r","y","_","r","a","g">>
ANALYZE_PROGRESS ==
    <<"a","n","a","l","y","z","e","_","p","r","o","g","r","e","s","s">>
SIMULATE_GPA == <<"s","i","m","u","l","a","t","e","_","g","p","a">>
GRAPH_QUERY == <<"g","r","a","p","h","_","q","u","e","r","y">>
GENERAL_CHAT == <<"g","e","n","e","r","a","l","_","c","h","a","t">>
UNKNOWN == <<"u","n","k","n","o","w","n">>
ERROR == <<"e","r","r","o","r">>

valid_intents_NoSimulateGpa ==
    {QUERY_RAG, ANALYZE_PROGRESS, GRAPH_QUERY, GENERAL_CHAT}

valid_intents ==
    {QUERY_RAG, ANALYZE_PROGRESS, SIMULATE_GPA, GRAPH_QUERY, GENERAL_CHAT}

\* source labels
SRC_FAQ == "FAQ Database"
SRC_DEMO == "Demo Mode"
SRC_PROGRESS == "Student Progress Service"
SRC_ERROR == "Error"
SRC_GRAPH == "Graph DB (Neo4j)"
SRC_GENERAL == "LLM (General)"
SRC_AGENT_ERROR == "Agent Error"

\* canned texts
TIMEOUT_MSG ==
    <<"[ar:intahat muhlat al-ittisal bil-namudhaj]", ".", " ",
      "[ar:yurja al-muhawala marra ukhra aw tabsit al-su'al]", ".">>
NO_ANSWER_MSG == <<"[ar:lam ajid ijaba muhaddada]", ".">>
DEMO_MSG ==
    <<"[ar:al-wad' al-tajribi la yad'am al-wusul ila bayanatik]", ".", " ",
      "[ar:yurja tasjil al-dukhul]", ".">>
AGENT_ERROR_MSG == <<"[ar:'udhran, lam atamakkan min fahm niyyatik]", ".">>


-----------------------------------------------------------------------------
(* Text operations of Python, as the code uses them *)

WHITESPACE == {" ", "\n", "\t"}

UPPER == <<"A","B","C","D","E","F","G","H","I","J","K","L","M",
           "N","O","P","Q","R","S","T","U","V","W","X","Y","Z">>
LOWER == <<"a","b","c","d","e","f","g","h","i","j","k","l","m",
           "n","o","p","q","r","s","t","u","v","w","x","y","z">>

LowerChar(c) ==
    IF \E i \in 1..Len(UPPER) : UPPER[i] = c
    THEN LOWER[CHOOSE i \in 1..Len(UPPER) : UPPER[i] = c]
    ELSE c

\* str.lower()
Lower(t) == [i \in 1..Len(t) |-> LowerChar(t[i])]

\* str.strip(): the text between its first and its last non-blank symbol
Strip(t) ==
    LET kept == {i \in 1..Len(t) : t[i] \notin WHITESPACE}
    IN  IF kept = {} THEN <<>>
        ELSE SubSeq(t, CHOOSE i \in kept : \A j \in kept : i <= j,
                       CHOOSE i \in kept : \A j \in kept : i >= j)

\* str.replace(old, new) for a one-character `old` and a `new` of at most
\* one character, as in llm_service.py:177
Replace(t, old, new) ==
    IF new = <<>>
    THEN SelectSeq(t, LAMBDA c : c # old)
    ELSE [i \in 1..Len(t) |-> IF t[i] = old THEN new[1] ELSE t[i]]

\* `sub in t` for texts
IsInfix(sub, t) ==
    \E i \in 0..(Len(t) - Len(sub)) :
        \A j \in 1..Len(sub) : t[i + j] = sub[j]

\* sep.join(items)
RECURSIVE Join(_, _)
Join(sep, items) ==
    IF items = <<>> THEN <<>>
    ELSE IF Len(items) = 1 THEN Head(items)
    ELSE Head(items) \o sep \o Join(sep, Tail(items))

\* `word in question`
InQuestion(word, q) == \E i \in 1..Len(q) : q[i] = word

\* the classes derived from Exception that the collaborators raise
ExceptionClasses == {"RuntimeError", "KeyError"}

\* an exception object: its class and its message
Exceptions == {[type |-> "RuntimeError", msg |-> "boom"]}

\* str(e)
Str(e) == <<e.msg>>

\* repr(e)
Repr(e) == <<e.type, "(", "'", e.msg, "'", ")">>

-----------------------------------------------------------------------------
(* The Generation Gateway: generate_llm_response *)

\* texts the external service may put in the "response" field
ServiceTexts ==
    { QUERY_RAG,
      <<"Q","u","e","r","y"," ","R","A","G",".">>,
      <<" ">> \o ANALYZE_PROGRESS \o <<"\n">>,
      GRAPH_QUERY,
      GENERAL_CHAT \o <<".">>,
      SIMULATE_GPA,
      <<"S","i","m","u","l","a","t","e"," ","G","P","A">>,
      <<"x","y","z">>,
      <<>>,
      <<"T","h","e"," ","a","n","s","w","e","r"," ","i","s"," ","4","2",".">> }

\* what one POST to the service can do
ServiceOutcomes ==
    [kind : {"ok"}, text : ServiceTexts]
    \cup {[kind |-> "no_response_field"]}
    \cup {[kind |-> "timeout"]}
    \cup [kind : {"request_error", "other_error"}, exc : Exceptions]

CONNECT_MSG(e) ==
    <<"[ar:khata' fi al-ittisal bi-]", "Ollama", ":", " ">> \o Str(e)
    \o <<".", " ", "[ar:ta'akkad min anna Ollama ya'mal]", ".">>

UNEXPECTED_MSG(e) ==
    <<"[ar:hadatha khata' ghayr mutawaqqa' athna' tawlid al-ijaba]", ":", " ">>
    \o Repr(e)

\* the class of the exception the POST (or raise_for_status, or json) raises
RaisedClass(o) ==
    CASE o.kind = "timeout" -> "httpx.TimeoutException"
      [] o.kind = "request_error" -> "httpx.RequestError"
      [] o.kind = "other_error" -> o.exc.type

\* the exception object itself; a timeout carries no message of interest
RaisedException(o) ==
    IF o.kind = "timeout"
    THEN [type |-> "httpx.TimeoutException", msg |-> ""]
    ELSE o.exc

\* httpx: a TimeoutException is a RequestError, and all are Exceptions
Superclasses(c) ==
    CASE c = "httpx.TimeoutException" ->
            {"httpx.TimeoutException", "httpx.RequestError", "Exception"}
      [] c = "httpx.RequestError" -> {"httpx.RequestError", "Exception"}
      [] OTHER -> {c, "Exception"}

ExceptClauses_NoCatchAll == <<"httpx.TimeoutException", "httpx.RequestError">>

\* the except clauses of generate_llm_response, llm_service.py:114-118
ExceptClauses ==
    <<"httpx.TimeoutException", "httpx.RequestError", "Exception">>

\* the call leaves generate_llm_response as an exception: the try block
\* raised and no except clause matches
GatewayRaises(o) ==
    /\ o.kind \in {"timeout", "request_error", "other_error"}
    /\ \A i \in 1..Len(ExceptClauses) :
          ExceptClauses[i] \notin Superclasses(RaisedClass(o))

generate_llm_response_WrongTimeoutText(o) ==
    CASE o.kind = "ok" -> Strip(o.text)
      [] o.kind = "no_response_field" -> Strip(NO_ANSWER_MSG)
      [] o.kind = "timeout" -> NO_ANSWER_MSG
      [] o.kind = "request_error" -> CONNECT_MSG(o.exc)
      [] o.kind = "other_error" -> UNEXPECTED_MSG(o.exc)

\* the text generate_llm_response returns for an outcome of the POST
generate_llm_response(o) ==
    CASE o.kind = "ok" -> Strip(o.text)
      [] o.kind = "no_response_field" -> Strip(NO_ANSWER_MSG)
      [] o.kind = "timeout" -> TIMEOUT_MSG
      [] o.kind = "request_error" -> CONNECT_MSG(o.exc)
      [] o.kind = "other_error" -> UNEXPECTED_MSG(o.exc)

-----------------------------------------------------------------------------
(* The Intent Classifier: determine_intent *)

\* llm_service.py:177
NormalizeIntent(t) ==
    Replace(Replace(Lower(Strip(t)), ".", <<>>), " ", <<"_">>)

\* llm_service.py:182-186
ValidateIntent_NoDefault(t) == t

ValidateIntent_DefaultRag(t) == IF t \in valid_intents THEN t ELSE QUERY_RAG

ValidateIntent(t) == IF t \in valid_intents THEN t ELSE GENERAL_CHAT

\* the intent determine_intent returns when its gateway call returned `text`
determine_intent(text) == ValidateIntent(NormalizeIntent(text))

-----------------------------------------------------------------------------
(* The collaborators, as process_agentic_query sees them *)

\* documents_service.retrieve_context(question): (context_str, source_info)
RetrieverOutcomes ==
    { [kind |-> "ok", context_str |-> <<>>, source_info |-> ""],
      [kind |-> "ok", context_str |-> <<"[ar:nass al-la'iha]">>,
       source_info |-> "regulations.pdf"] }
    \cup [kind : {"raise"}, exc : Exceptions]

PROGRESS_KEYS ==
    {"current_gpa", "completed_hours", "remaining_courses_count",
     "registerable_next_semester", "completed_courses"}

\* progress_service.analyze_progress(progress_db, users_db, user_id)
ProgressOutcomes ==
    { [kind |-> "ok",
       data |-> [current_gpa |-> "3.2", completed_hours |-> "90",
                 remaining_courses_count |-> "6",
                 registerable_next_semester |-> <<"CS301">>,
                 completed_courses |-> <<"CS101">>]],
      [kind |-> "ok", data |-> [completed_hours |-> "90"]] }
    \cup [kind : {"raise"}, exc : Exceptions]

SkillNames == {"Logic", "Proofs"}

\* graph_service.get_skills_for_course("CS101")
GraphOutcomes ==
    [kind : {"ok"}, skills : SeqsUpTo(SkillNames, MaxSkills)]
    \cup [kind : {"raise"}, exc : Exceptions]

NoCollab == [kind |-> "none"]
NoExc == [type |-> NONE, msg |-> NONE]
NoResponse == [answer |-> <<>>, source |-> NONE, intent |-> <<>>]

\* the calls an invocation can make
CALL_CLASSIFY == "gateway:classify"
CALL_RAG == "gateway:rag"
CALL_ANALYSIS == "gateway:analysis"
CALL_GENERAL == "gateway:general"
CALL_DOCUMENTS == "documents.retrieve_context"
CALL_PROGRESS == "progress.analyze_progress"
CALL_GRAPH == "graph.get_skills_for_course"

GatewayCalls == {CALL_CLASSIFY, CALL_RAG, CALL_ANALYSIS, CALL_GENERAL}
AnswerCalls == {CALL_RAG, CALL_ANALYSIS, CALL_GENERAL}
CollaboratorCalls == {CALL_DOCUMENTS, CALL_PROGRESS, CALL_GRAPH}

\* how many calls of the log are in the set S
CountCalls(S) == Cardinality({i \in 1..Len(calls) : calls[i] \in S})

-----------------------------------------------------------------------------
(* Decisions of process_agentic_query *)

\* llm_service.py:233
FaqHit_Never(q) == FALSE

FaqHit(q) == q \in DOMAIN FAQ_DATABASE

\* llm_service.py:245
HasContext_Always(context_str) == TRUE

HasContext_Never(context_str) == FALSE

HasContext(context_str) == context_str # <<>>

\* llm_service.py:261 and 316
CascadeIntent_Same == intent

CascadeIntent == GENERAL_CHAT

\* llm_service.py:266
DemoRestricted_DemoOnly(demo, uid) == demo

DemoRestricted(demo, uid) == demo \/ uid \in {NONE, ""}

\* llm_service.py:306
GraphHeuristic_Always(q) == TRUE

GraphHeuristic(q) == InQuestion(KW_SKILLS, q) /\ InQuestion(KW_COURSE, q)

\* llm_service.py:311
HasSkills(skills) == skills # <<>>

\* llm_service.py:312
SkillsSentence_SpaceJoin(skills) ==
    <<"[ar:al-muqarrar]", " ", "CS101", " ",
      "[ar:yudarris al-maharat al-taliya]", ":", " ">>
    \o Join(<<" ">>, [i \in 1..Len(skills) |-> <<skills[i]>>])

SkillsSentence(skills) ==
    <<"[ar:al-muqarrar]", " ", "CS101", " ",
      "[ar:yudarris al-maharat al-taliya]", ":", " ">>
    \o Join(<<",", " ">>, [i \in 1..Len(skills) |-> <<skills[i]>>])

\* the exception raised in the try block of lines 273-296 before its await:
\* the analyzer's own, or the KeyError of a prompt field the data lacks
TryBlockException(r) ==
    IF r.kind = "raise" THEN r.exc
    ELSE IF ~(PROGRESS_KEYS \subseteq DOMAIN r.data)
    THEN [type |-> "KeyError",
          msg |-> CHOOSE k \in PROGRESS_KEYS : k \notin DOMAIN r.data]
    ELSE NoExc

ProgressErrorAnswer_NoExceptionText(e) ==
    <<"[ar:hadatha khata' athna' tahlil taqaddum al-talib]", ".">>

\* llm_service.py:298
ProgressErrorAnswer(e) ==
    <<"[ar:hadatha khata' athna' tahlil taqaddum al-talib]", ":", " ">>
    \o Repr(e)

\* llm_service.py:369
BridgeErrorAnswer(e) ==
    <<"[ar:'udhran, hadatha khata' athna' mu'alajat su'alik]", ":", " ">>
    \o Str(e)

\* llm_service.py:367: `except Exception`
BridgeCatches_Nothing(e) == FALSE

BridgeCatches(e) == e.type \in ExceptionClasses

LLMResponse(a, s, i) == [answer |-> a, source |-> s, intent |-> i]

-----------------------------------------------------------------------------
(* The state machine *)

EffectiveUserId_PassesIdentity(uid, demo) == uid

\* llm_service.py:358: the identity handed to process_agentic_query
EffectiveUserId(uid, demo) == IF ~demo THEN uid ELSE NONE

PcValues ==
    {"idle", "faq", "classify", "route", "gen_rag", "gen_progress",
     "general", "returned", "raised", "done", "crashed"}

Init ==
    /\ pc = "idle"
    /\ question = <<>>
    /\ user_id = ""
    /\ is_demo = FALSE
    /\ effective_user_id = NONE
    /\ loop = "none"
    /\ intent = <<>>
    /\ classified = <<>>
    /\ collab = NoCollab
    /\ response = NoResponse
    /\ exc = NoExc
    /\ result = NoResponse
    /\ calls = <<>>
    /\ outcomes = <<>>
    /\ replies = <<>>
    /\ cascades = 0
    /\ producer = NONE
    /\ returned = 0

\* process_chat_request is entered: a fresh event loop, and the coroutine
\* process_agentic_query(question, effective_user_id, services, is_demo)
ProcessChatRequest ==
    /\ pc = "idle"
    /\ \E q \in Questions, u \in UserIds, d \in BOOLEAN :
        /\ question' = q
        /\ user_id' = u
        /\ is_demo' = d
        /\ effective_user_id' = EffectiveUserId(u, d)
    /\ loop' = "running"
    /\ pc' = "faq"
    /\ UNCHANGED <<intent, classified, collab, response, exc, result, calls,
                   outcomes, replies, cascades, producer, returned>>

\* 1. the FAQ shortcut
FaqCheck ==
    /\ pc = "faq"
    /\ IF FaqHit(question)
       THEN /\ response' =
                LLMResponse(FAQ_DATABASE[question], SRC_FAQ, QUERY_RAG)
            /\ producer' = "faq"
            /\ pc' = "returned"
       ELSE /\ pc' = "classify"
            /\ UNCHANGED <<response, producer>>
    /\ UNCHANGED <<question, user_id, is_demo, effective_user_id, loop, intent,
                   classified, collab, exc, result, calls, outcomes,
                   replies,
                   cascades, returned>>

\* 2. intent = await determine_intent(question)
DetermineIntent ==
    /\ pc = "classify"
    /\ \E o \in ServiceOutcomes :
        /\ outcomes' = Append(outcomes, o.kind)
        /\ replies' = Append(replies, o)
        /\ IF GatewayRaises(o)
           THEN /\ exc' = RaisedException(o)
                /\ pc' = "raised"
                /\ UNCHANGED <<classified, intent>>
           ELSE /\ classified' = NormalizeIntent(generate_llm_response(o))
                /\ intent' = determine_intent(generate_llm_response(o))
                /\ pc' = "route"
                /\ UNCHANGED exc
    /\ calls' = Append(calls, CALL_CLASSIFY)
    /\ UNCHANGED <<question, user_id, is_demo, effective_user_id, loop, collab,
                   response, result, cascades, producer, returned>>

RouteQueryRag_Prefetch ==
    /\ pc = "route"
    /\ intent = QUERY_RAG
    /\ calls' = calls \o <<CALL_DOCUMENTS, CALL_RAG>>
    /\ \E r \in RetrieverOutcomes :
        /\ outcomes' = Append(outcomes, r.kind)
        /\ replies' = Append(replies, r)
        /\ IF r.kind = "raise"
           THEN /\ exc' = r.exc
                /\ pc' = "raised"
                /\ UNCHANGED <<intent, collab, cascades>>
           ELSE IF HasContext(r.context_str)
           THEN /\ collab' = r
                /\ pc' = "gen_rag"
                /\ UNCHANGED <<intent, exc, cascades>>
           ELSE /\ intent' = CascadeIntent
                /\ cascades' = cascades + 1
                /\ collab' = r
                /\ pc' = "general"
                /\ UNCHANGED exc
    /\ UNCHANGED <<question, user_id, is_demo, effective_user_id, loop,
                   classified, response, result, producer, returned>>

\* 3.1 the query_rag branch, up to its await
RouteQueryRag ==
    /\ pc = "route"
    /\ intent = QUERY_RAG
    /\ calls' = Append(calls, CALL_DOCUMENTS)
    /\ \E r \in RetrieverOutcomes :
        /\ outcomes' = Append(outcomes, r.kind)
        /\ replies' = Append(replies, r)
        /\ IF r.kind = "raise"
           THEN /\ exc' = r.exc
                /\ pc' = "raised"
                /\ UNCHANGED <<intent, collab, cascades>>
           ELSE IF HasContext(r.context_str)
           THEN /\ collab' = r
                /\ pc' = "gen_rag"
                /\ UNCHANGED <<intent, exc, cascades>>
           ELSE /\ intent' = CascadeIntent
                /\ cascades' = cascades + 1
                /\ collab' = r
                /\ pc' = "general"
                /\ UNCHANGED exc
    /\ UNCHANGED <<question, user_id, is_demo, effective_user_id, loop,
                   classified, response, result, producer, returned>>

\* 3.1 the grounded answer
GenerateRagAnswer ==
    /\ pc = "gen_rag"
    /\ calls' = Append(calls, CALL_RAG)
    /\ \E o \in ServiceOutcomes :
        /\ outcomes' = Append(outcomes, o.kind)
        /\ replies' = Append(replies, o)
        /\ IF GatewayRaises(o)
           THEN /\ exc' = RaisedException(o)
                /\ pc' = "raised"
                /\ UNCHANGED <<response, producer>>
           ELSE /\ response' =
                    LLMResponse(generate_llm_response(o), collab.source_info,
                                intent)
                /\ producer' = "query_rag"
                /\ pc' = "returned"
                /\ UNCHANGED exc
    /\ UNCHANGED <<question, user_id, is_demo, effective_user_id, loop, intent,
                   classified, collab, result, cascades, returned>>

\* 3.2 the analyze_progress branch, up to its await
RouteAnalyzeProgress ==
    /\ pc = "route"
    /\ intent = ANALYZE_PROGRESS
    /\ IF DemoRestricted(is_demo, effective_user_id)
       THEN /\ response' = LLMResponse(DEMO_MSG, SRC_DEMO, intent)
            /\ producer' = "analyze_progress"
            /\ pc' = "returned"
            /\ UNCHANGED <<calls, outcomes, replies, collab>>
       ELSE /\ calls' = Append(calls, CALL_PROGRESS)
            /\ \E r \in ProgressOutcomes :
                /\ outcomes' = Append(outcomes, r.kind)
                /\ replies' = Append(replies, r)
                /\ collab' = r
                /\ IF TryBlockException(r) # NoExc
                   THEN /\ response' =
                            LLMResponse(
                                ProgressErrorAnswer(TryBlockException(r)),
                                SRC_ERROR, intent)
                        /\ producer' = "analyze_progress"
                        /\ pc' = "returned"
                   ELSE /\ pc' = "gen_progress"
                        /\ UNCHANGED <<response, producer>>
    /\ UNCHANGED <<question, user_id, is_demo, effective_user_id, loop, intent,
                   classified, exc, result, cascades, returned>>

\* 3.2 the answer from the progress data
GenerateProgressAnswer ==
    /\ pc = "gen_progress"
    /\ calls' = Append(calls, CALL_ANALYSIS)
    /\ \E o \in ServiceOutcomes :
        /\ outcomes' = Append(outcomes, o.kind)
        /\ replies' = Append(replies, o)
        /\ response' =
             IF GatewayRaises(o)
             THEN LLMResponse(ProgressErrorAnswer(RaisedException(o)),
                              SRC_ERROR, intent)
             ELSE LLMResponse(generate_llm_response(o), SRC_PROGRESS, intent)
    /\ producer' = "analyze_progress"
    /\ pc' = "returned"
    /\ UNCHANGED <<question, user_id, is_demo, effective_user_id, loop, intent,
                   classified, collab, exc, result, cascades, returned>>

\* 3.3 the graph_query branch
RouteGraphQuery ==
    /\ pc = "route"
    /\ intent = GRAPH_QUERY
    /\ IF GraphHeuristic(question)
       THEN /\ calls' = Append(calls, CALL_GRAPH)
            /\ \E r \in GraphOutcomes :
                /\ outcomes' = Append(outcomes, r.kind)
                /\ replies' = Append(replies, r)
                /\ IF r.kind = "raise"
                   THEN /\ exc' = r.exc
                        /\ pc' = "raised"
                        /\ UNCHANGED <<intent, collab, cascades, response,
                                       producer>>
                   ELSE IF HasSkills(r.skills)
                   THEN /\ response' =
                            LLMResponse(SkillsSentence(r.skills), SRC_GRAPH,
                                        intent)
                        /\ producer' = "graph_query"
                        /\ collab' = r
                        /\ pc' = "returned"
                        /\ UNCHANGED <<intent, exc, cascades>>
                   ELSE /\ intent' = CascadeIntent
                        /\ cascades' = cascades + 1
                        /\ collab' = r
                        /\ pc' = "general"
                        /\ UNCHANGED <<exc, response, producer>>
       ELSE /\ intent' = CascadeIntent
            /\ cascades' = cascades + 1
            /\ pc' = "general"
            /\ UNCHANGED <<calls, outcomes, replies, collab, exc, response,
                           producer>>
    /\ UNCHANGED <<question, user_id, is_demo, effective_user_id, loop,
                   classified, result, returned>>

\* no branch of the if/elif chain of lines 242-316 is taken
RouteNone ==
    /\ pc = "route"
    /\ intent \notin {QUERY_RAG, ANALYZE_PROGRESS, GRAPH_QUERY}
    /\ pc' = "general"
    /\ UNCHANGED <<question, user_id, is_demo, effective_user_id, loop, intent,
                   classified, collab, response, exc, result, calls, outcomes,
                   replies, cascades, producer, returned>>

GeneralChat_ReportsClassified ==
    /\ pc = "general"
    /\ intent = GENERAL_CHAT
    /\ calls' = Append(calls, CALL_GENERAL)
    /\ \E o \in ServiceOutcomes :
        /\ outcomes' = Append(outcomes, o.kind)
        /\ replies' = Append(replies, o)
        /\ IF GatewayRaises(o)
           THEN /\ exc' = RaisedException(o)
                /\ pc' = "raised"
                /\ UNCHANGED <<response, producer>>
           ELSE /\ response' =
                    LLMResponse(generate_llm_response(o), SRC_GENERAL,
                                IF classified \in valid_intents
                                THEN classified ELSE intent)
                /\ producer' = "general_chat"
                /\ pc' = "returned"
                /\ UNCHANGED exc
    /\ UNCHANGED <<question, user_id, is_demo, effective_user_id, loop, intent,
                   classified, collab, result, cascades, returned>>

GeneralChat_RetriesOnFailure ==
    /\ pc = "general"
    /\ intent = GENERAL_CHAT
    /\ calls' = Append(calls, CALL_GENERAL)
    /\ \E o \in ServiceOutcomes :
        /\ outcomes' = Append(outcomes, o.kind)
        /\ replies' = Append(replies, o)
        /\ IF GatewayRaises(o)
           THEN /\ exc' = RaisedException(o)
                /\ pc' = "raised"
                /\ UNCHANGED <<response, producer>>
           ELSE IF o.kind # "ok"
           THEN UNCHANGED <<pc, response, producer, exc>>
           ELSE /\ response' =
                    LLMResponse(generate_llm_response(o), SRC_GENERAL, intent)
                /\ producer' = "general_chat"
                /\ pc' = "returned"
                /\ UNCHANGED exc
    /\ UNCHANGED <<question, user_id, is_demo, effective_user_id, loop, intent,
                   classified, collab, result, cascades, returned>>

\* 3.5 the general_chat branch
GeneralChat ==
    /\ pc = "general"
    /\ intent = GENERAL_CHAT
    /\ calls' = Append(calls, CALL_GENERAL)
    /\ \E o \in ServiceOutcomes :
        /\ outcomes' = Append(outcomes, o.kind)
        /\ replies' = Append(replies, o)
        /\ IF GatewayRaises(o)
           THEN /\ exc' = RaisedException(o)
                /\ pc' = "raised"
                /\ UNCHANGED <<response, producer>>
           ELSE /\ response' =
                    LLMResponse(generate_llm_response(o), SRC_GENERAL, intent)
                /\ producer' = "general_chat"
                /\ pc' = "returned"
                /\ UNCHANGED exc
    /\ UNCHANGED <<question, user_id, is_demo, effective_user_id, loop, intent,
                   classified, collab, result, cascades, returned>>

FallThrough_ReportsIntent ==
    /\ pc = "general"
    /\ intent # GENERAL_CHAT
    /\ response' = LLMResponse(AGENT_ERROR_MSG, SRC_AGENT_ERROR, intent)
    /\ producer' = "fallthrough"
    /\ pc' = "returned"
    /\ UNCHANGED <<question, user_id, is_demo, effective_user_id, loop, intent,
                   classified, collab, exc, result, calls, outcomes,
                   replies,
                   cascades, returned>>

\* 4. the fall-through return
FallThrough ==
    /\ pc = "general"
    /\ intent # GENERAL_CHAT
    /\ response' = LLMResponse(AGENT_ERROR_MSG, SRC_AGENT_ERROR, UNKNOWN)
    /\ producer' = "fallthrough"
    /\ pc' = "returned"
    /\ UNCHANGED <<question, user_id, is_demo, effective_user_id, loop, intent,
                   classified, collab, exc, result, calls, outcomes,
                   replies,
                   cascades, returned>>

\* process_chat_request returns the response as a dict; finally: loop.close()
BridgeReturn ==
    /\ pc = "returned"
    /\ result' = response
    /\ loop' = "closed"
    /\ returned' = returned + 1
    /\ pc' = "done"
    /\ UNCHANGED <<question, user_id, is_demo, effective_user_id, intent,
                   classified, collab, response, exc, calls, outcomes,
                   replies,
                   cascades, producer>>

\* the coroutine raised: finally: loop.close(), then the outer except
BridgeExcept ==
    /\ pc = "raised"
    /\ loop' = "closed"
    /\ IF BridgeCatches(exc)
       THEN /\ result' = LLMResponse(BridgeErrorAnswer(exc), SRC_ERROR, ERROR)
            /\ returned' = returned + 1
            /\ pc' = "done"
       ELSE /\ pc' = "crashed"
            /\ UNCHANGED <<result, returned>>
    /\ UNCHANGED <<question, user_id, is_demo, effective_user_id, intent,
                   classified, collab, response, exc, calls, outcomes,
                   replies,
                   cascades, producer>>

\* the steps of an invocation in progress
Step ==
    \/ FaqCheck
    \/ DetermineIntent
    \/ RouteQueryRag
    \/ GenerateRagAnswer
    \/ RouteAnalyzeProgress
    \/ GenerateProgressAnswer
    \/ RouteGraphQuery
    \/ RouteNone
    \/ GeneralChat
    \/ FallThrough
    \/ BridgeReturn
    \/ BridgeExcept

-----------------------------------------------------------------------------
(* process_agentic_query and process_chat_request as functions of their     *)
(* arguments and of the replies their calls receive, in call order          *)

\* how process_agentic_query ends: a returned LLMResponse or an exception
Return(r) == [kind |-> "return", response |-> r, exc |-> NoExc]
Raise(e) == [kind |-> "raise", response |-> NoResponse, exc |-> e]

\* answer = await generate_llm_response(prompt); return LLMResponse(...)
Answered(o, source, i) ==
    IF GatewayRaises(o)
    THEN Raise(RaisedException(o))
    ELSE Return(LLMResponse(generate_llm_response(o), source, i))

\* lines 322-332: the general_chat branch and the fall-through return
GeneralBranch(i, rest) ==
    IF i = GENERAL_CHAT
    THEN Answered(rest[1], SRC_GENERAL, i)
    ELSE Return(LLMResponse(AGENT_ERROR_MSG, SRC_AGENT_ERROR, UNKNOWN))

\* lines 264-298 after the demo check
ProgressBranch(i, rest) ==
    IF TryBlockException(rest[1]) # NoExc
    THEN Return(LLMResponse(ProgressErrorAnswer(TryBlockException(rest[1])),
                            SRC_ERROR, i))
    ELSE IF GatewayRaises(rest[2])
    THEN Return(LLMResponse(ProgressErrorAnswer(RaisedException(rest[2])),
                            SRC_ERROR, i))
    ELSE Return(LLMResponse(generate_llm_response(rest[2]), SRC_PROGRESS, i))

\* lines 232-332
process_agentic_query(q, uid, demo, rep) ==
    IF FaqHit(q)
    THEN Return(LLMResponse(FAQ_DATABASE[q], SRC_FAQ, QUERY_RAG))
    ELSE IF GatewayRaises(rep[1])
    THEN Raise(RaisedException(rep[1]))
    ELSE LET i == determine_intent(generate_llm_response(rep[1]))
             rest == Tail(rep)
         IN  CASE i = QUERY_RAG ->
                    IF rest[1].kind = "raise"
                    THEN Raise(rest[1].exc)
                    ELSE IF HasContext(rest[1].context_str)
                    THEN Answered(rest[2], rest[1].source_info, i)
                    ELSE GeneralBranch(CascadeIntent, Tail(rest))
               [] i = ANALYZE_PROGRESS ->
                    IF DemoRestricted(demo, uid)
                    THEN Return(LLMResponse(DEMO_MSG, SRC_DEMO, i))
                    ELSE ProgressBranch(i, rest)
               [] i = GRAPH_QUERY ->
                    IF ~GraphHeuristic(q)
                    THEN GeneralBranch(CascadeIntent, rest)
                    ELSE IF rest[1].kind = "raise"
                    THEN Raise(rest[1].exc)
                    ELSE IF HasSkills(rest[1].skills)
                    THEN Return(LLMResponse(SkillsSentence(rest[1].skills),
                                            SRC_GRAPH, i))
                    ELSE GeneralBranch(CascadeIntent, Tail(rest))
               [] OTHER -> GeneralBranch(i, rest)

\* lines 352-372
process_chat_request(q, uid, demo, rep) ==
    LET r == process_agentic_query(q, EffectiveUserId(uid, demo), demo, rep)
    IN  IF r.kind = "return"
        THEN r.response
        ELSE IF BridgeCatches(r.exc)
        THEN LLMResponse(BridgeErrorAnswer(r.exc), SRC_ERROR, ERROR)
        ELSE NoResponse

-----------------------------------------------------------------------------
(* Concurrent invocations of process_chat_request.  The endpoint            *)
(* chat_with_advisor (main.py:311-312) is a plain `def`, so the server runs *)
(* each request on a worker thread of its pool and several invocations of   *)
(* process_chat_request are in progress at once.                            *)

\* simultaneous /chat requests; there are as many worker threads
NumInvocations == 2

Invocations == 1..NumInvocations
Threads == 1..NumInvocations

\* the directory of llm_service.py:339
BACKEND_DIR == "backend"

\* sys.path when the first request arrives: main.py:13 has inserted backend
InitialSysPath == <<BACKEND_DIR, "site-packages">>

NoLoop == 0
NoThread == 0

\* how the coroutine process_agentic_query ends for an invocation
PipelineEndings == {"response", "exception"}

IdleInvocation ==
    [pc |-> "idle", thread |-> NoThread, loop |-> NoLoop, ran_in |-> NoLoop,
     ending |-> NONE, result |-> NONE]

BridgeInit ==
    /\ inv = [i \in Invocations |-> IdleInvocation]
    /\ sys_path = InitialSysPath
    /\ loops = <<>>
    /\ thread_loop = [t \in Threads |-> NoLoop]

\* a thread of the pool runs one request at a time
Busy(t) ==
    \E i \in Invocations :
        inv[i].thread = t /\ inv[i].pc \notin {"idle", "done"}

NewLoopId_Shared == IF loops = <<>> THEN Len(loops) + 1 ELSE Len(loops)

\* asyncio.new_event_loop() constructs a loop that did not exist before
NewLoopId == Len(loops) + 1

\* lines 334-351: the call is entered on a free worker thread; sys.path is
\* prepended, the services are imported and the services bag is built
EnterProcessChatRequest(i) ==
    /\ inv[i].pc = "idle"
    /\ \E t \in Threads, e \in PipelineEndings :
        /\ ~Busy(t)
        /\ inv' = [inv EXCEPT ![i].pc = "entered", ![i].thread = t,
                              ![i].ending = e]
    /\ sys_path' = <<BACKEND_DIR>> \o sys_path
    /\ UNCHANGED <<loops, thread_loop>>

\* line 354: loop = asyncio.new_event_loop()
NewEventLoop(i) ==
    /\ inv[i].pc = "entered"
    /\ loops' = IF NewLoopId > Len(loops) THEN Append(loops, "open") ELSE loops
    /\ inv' = [inv EXCEPT ![i].pc = "constructed", ![i].loop = NewLoopId]
    /\ UNCHANGED <<sys_path, thread_loop>>

\* line 355: asyncio.set_event_loop(loop), the current loop of this thread
SetEventLoop(i) ==
    /\ inv[i].pc = "constructed"
    /\ thread_loop' = [thread_loop EXCEPT ![inv[i].thread] = inv[i].loop]
    /\ inv' = [inv EXCEPT ![i].pc = "set"]
    /\ UNCHANGED <<sys_path, loops>>

\* line 359: loop.run_until_complete(...) starts the local `loop`; a loop
\* that is closed or already running raises RuntimeError instead
RunUntilComplete(i) ==
    /\ inv[i].pc = "set"
    /\ IF loops[inv[i].loop] = "open"
       THEN /\ loops' = [loops EXCEPT ![inv[i].loop] = "running"]
            /\ inv' = [inv EXCEPT ![i].pc = "running",
                                  ![i].ran_in = inv[i].loop]
       ELSE /\ inv' = [inv EXCEPT ![i].pc = "finally",
                                  ![i].ending = "exception"]
            /\ UNCHANGED loops
    /\ UNCHANGED <<sys_path, thread_loop>>

\* line 359: the coroutine ends, run_until_complete stops the loop
PipelineEnds(i) ==
    /\ inv[i].pc = "running"
    /\ loops' = [loops EXCEPT ![inv[i].loop] = "open"]
    /\ inv' = [inv EXCEPT ![i].pc = "finally"]
    /\ UNCHANGED <<sys_path, thread_loop>>

\* lines 365-366: finally: loop.close(); closing a running loop raises
CloseLoop(i) ==
    /\ inv[i].pc = "finally"
    /\ IF loops[inv[i].loop] = "running"
       THEN /\ inv' = [inv EXCEPT ![i].pc = "closed",
                                  ![i].ending = "exception"]
            /\ UNCHANGED loops
       ELSE /\ loops' = [loops EXCEPT ![inv[i].loop] = "closed"]
            /\ inv' = [inv EXCEPT ![i].pc = "closed"]
    /\ UNCHANGED <<sys_path, thread_loop>>

\* lines 360-364 and 367-372: the dict of the response, or the error dict
LeaveProcessChatRequest(i) ==
    /\ inv[i].pc = "closed"
    /\ inv' = [inv EXCEPT ![i].pc = "done",
                          ![i].result = IF inv[i].ending = "response"
                                        THEN "response" ELSE SRC_ERROR]
    /\ UNCHANGED <<sys_path, loops, thread_loop>>

-----------------------------------------------------------------------------
(* The middleware stack of main.py and the rate limiter of                  *)
(* security_middleware.py.  Clock readings, the window and the limits are   *)
(* scaled down; a request is handled alone, from its arrival to the         *)
(* delivery of its response.                                                *)

\* last clock reading
MaxTime == 2

\* RATE_LIMIT_WINDOW of security_middleware.py:37, scaled down from 60
RATE_LIMIT_WINDOW == 2

\* RATE_LIMIT_MAX_REQUESTS of security_middleware.py:38, scaled down from 100
RATE_LIMIT_MAX_REQUESTS == 2

\* RATE_LIMIT_AUTH_MAX of security_middleware.py:39, scaled down from 10
RATE_LIMIT_AUTH_MAX == 1

MAX_REQUEST_SIZE == 10 * 1024 * 1024

HTTP_200_OK == 200
HTTP_413_REQUEST_ENTITY_TOO_LARGE == 413
HTTP_429_TOO_MANY_REQUESTS == 429

\* two clients; the second one is there to be left alone by the first
IP1 == "10.0.0.1"
IP2 == "10.0.0.2"
ClientIPs == {IP1, IP2}

AUTH_PATHS == {"/token", "/token/json", "/register/student", "/register/admin"}

BODY_METHODS == {"POST", "PUT", "PATCH"}

\* the requests of the model: client, path, method and Content-Length
\* header (a sequence: empty when the header is absent)
Requests ==
    { [ip |-> IP1, path |-> "/token", method |-> "POST",
       content_length |-> <<64>>],
      [ip |-> IP1, path |-> "/chat", method |-> "POST",
       content_length |-> <<64>>],
      [ip |-> IP1, path |-> "/chat", method |-> "POST",
       content_length |-> <<MAX_REQUEST_SIZE + 1>>],
      [ip |-> IP1, path |-> "/health", method |-> "GET",
       content_length |-> <<>>],
      [ip |-> IP2, path |-> "/chat", method |-> "POST",
       content_length |-> <<64>>] }

NoRequest ==
    [ip |-> NONE, path |-> NONE, method |-> NONE, content_length |-> <<>>]

SECURITY_HEADERS ==
    {"X-Content-Type-Options", "X-Frame-Options", "X-XSS-Protection",
     "Strict-Transport-Security", "Content-Security-Policy",
     "Referrer-Policy", "Permissions-Policy"}

HttpResponse(code, by) == [status |-> code, headers |-> {}, from |-> by]

NoHttpResponse == [status |-> 0, headers |-> {}, from |-> NONE]

\* the add_middleware calls of main.py:53-63, in order
RegisteredMiddlewares ==
    <<"SecurityHeadersMiddleware", "RequestSizeMiddleware",
      "RateLimitMiddleware", "CORSMiddleware">>

\* add_middleware puts the new middleware in front: the last one added is
\* the outermost (main.py:51); MiddlewareStack[1] receives the request first
MiddlewareStack ==
    [k \in 1..Len(RegisteredMiddlewares) |->
        RegisteredMiddlewares[Len(RegisteredMiddlewares) + 1 - k]]

\* `layer` of the route handlers, below every middleware
ROUTER == Len(MiddlewareStack) + 1

\* `layer` outside the application: no request, or the response delivered
CLIENT == 0

\* security_middleware.py:90-93 and 107-110: the readings still in the window
InWindow(times, t) ==
    SelectSeq(times, LAMBDA req_time : t - req_time < RATE_LIMIT_WINDOW)

RateLimitAdmits_OffByOne(times, t) ==
    ~(Len(InWindow(times, t)) > RATE_LIMIT_MAX_REQUESTS)

\* security_middleware.py:96-97
RateLimitAdmits(times, t) ==
    ~(Len(InWindow(times, t)) >= RATE_LIMIT_MAX_REQUESTS)

AuthRateLimitAdmits_OffByOne(times, t) ==
    ~(Len(InWindow(times, t)) > RATE_LIMIT_AUTH_MAX)

\* security_middleware.py:113-114
AuthRateLimitAdmits(times, t) ==
    ~(Len(InWindow(times, t)) >= RATE_LIMIT_AUTH_MAX)

RateLimitRecord_Always(times, t) == Append(InWindow(times, t), t)

\* request_counts[client_ip] after _check_rate_limit, lines 90-100
RateLimitRecord(times, t) ==
    IF RateLimitAdmits(times, t)
    THEN Append(InWindow(times, t), t)
    ELSE InWindow(times, t)

\* auth_attempts[client_ip] after _check_auth_rate_limit, lines 107-117
AuthRateLimitRecord(times, t) ==
    IF AuthRateLimitAdmits(times, t)
    THEN Append(InWindow(times, t), t)
    ELSE InWindow(times, t)

\* security_middleware.py:264-269: the request is refused as too large
TooLarge(r) ==
    /\ r.method \in BODY_METHODS
    /\ r.content_length # <<>>
    /\ r.content_length[1] > MAX_REQUEST_SIZE

HttpInit ==
    /\ now = 0
    /\ request_counts = [a \in ClientIPs |-> <<>>]
    /\ auth_attempts = [a \in ClientIPs |-> <<>>]
    /\ request = NoRequest
    /\ layer = CLIENT
    /\ http_response = NoHttpResponse
    /\ admitted = [a \in ClientIPs |-> <<>>]
    /\ auth_passed = [a \in ClientIPs |-> <<>>]

\* the clock advances between two requests
Tick ==
    /\ layer = CLIENT
    /\ now < MaxTime
    /\ now' = now + 1
    /\ UNCHANGED <<request_counts, auth_attempts, request, layer,
                   http_response, admitted, auth_passed>>

\* a request reaches the outermost middleware
ReceiveRequest ==
    /\ layer = CLIENT
    /\ \E r \in Requests : request' = r
    /\ layer' = 1
    /\ http_response' = NoHttpResponse
    /\ UNCHANGED <<now, request_counts, auth_attempts, admitted,
                   auth_passed>>

Inbound(name) ==
    /\ layer \in 1..Len(MiddlewareStack)
    /\ MiddlewareStack[layer] = name
    /\ http_response = NoHttpResponse

Outbound(name) ==
    /\ layer \in 1..Len(MiddlewareStack)
    /\ MiddlewareStack[layer] = name
    /\ http_response # NoHttpResponse

\* CORSMiddleware hands a plain request to the next layer
CORSDispatch ==
    /\ Inbound("CORSMiddleware")
    /\ layer' = layer + 1
    /\ UNCHANGED <<now, request_counts, auth_attempts, request,
                   http_response, admitted, auth_passed>>

\* RateLimitMiddleware.dispatch, lines 53-83, up to call_next
RateLimitDispatch ==
    /\ Inbound("RateLimitMiddleware")
    /\ LET ip == request.ip
           is_auth == request.path \in AUTH_PATHS
           auth_ok == ~is_auth \/ AuthRateLimitAdmits(auth_attempts[ip], now)
           ok == auth_ok /\ RateLimitAdmits(request_counts[ip], now)
       IN /\ auth_attempts' =
                IF is_auth
                THEN [auth_attempts EXCEPT
                        ![ip] = AuthRateLimitRecord(auth_attempts[ip], now)]
                ELSE auth_attempts
          /\ request_counts' =
                IF auth_ok
                THEN [request_counts EXCEPT
                        ![ip] = RateLimitRecord(request_counts[ip], now)]
                ELSE request_counts
          /\ admitted' =
                IF ok THEN [admitted EXCEPT ![ip] = Append(admitted[ip], now)]
                ELSE admitted
          /\ auth_passed' =
                IF ok /\ is_auth
                THEN [auth_passed EXCEPT ![ip] = Append(auth_passed[ip], now)]
                ELSE auth_passed
          /\ IF ok
             THEN /\ layer' = layer + 1
                  /\ UNCHANGED http_response
             ELSE /\ http_response' =
                        HttpResponse(HTTP_429_TOO_MANY_REQUESTS,
                                     "RateLimitMiddleware")
                  /\ layer' = layer - 1
    /\ UNCHANGED <<now, request>>

\* RequestSizeMiddleware.dispatch, lines 262-281, up to call_next
RequestSizeDispatch ==
    /\ Inbound("RequestSizeMiddleware")
    /\ IF TooLarge(request)
       THEN /\ http_response' =
                HttpResponse(HTTP_413_REQUEST_ENTITY_TOO_LARGE,
                             "RequestSizeMiddleware")
            /\ layer' = layer - 1
       ELSE /\ layer' = layer + 1
            /\ UNCHANGED http_response
    /\ UNCHANGED <<now, request_counts, auth_attempts, request, admitted,
                   auth_passed>>

\* SecurityHeadersMiddleware.dispatch, line 129: await call_next(request)
SecurityHeadersDispatch ==
    /\ Inbound("SecurityHeadersMiddleware")
    /\ layer' = layer + 1
    /\ UNCHANGED <<now, request_counts, auth_attempts, request,
                   http_response, admitted, auth_passed>>

\* the route handler answers
Endpoint ==
    /\ layer = ROUTER
    /\ http_response' = HttpResponse(HTTP_200_OK, "router")
    /\ layer' = layer - 1
    /\ UNCHANGED <<now, request_counts, auth_attempts, request, admitted,
                   auth_passed>>

\* SecurityHeadersMiddleware.dispatch, lines 133-141: the response that
\* call_next returned gets the headers
SecurityHeadersReturn ==
    /\ Outbound("SecurityHeadersMiddleware")
    /\ http_response' =
         [http_response EXCEPT !.headers = @ \cup SECURITY_HEADERS]
    /\ layer' = layer - 1
    /\ UNCHANGED <<now, request_counts, auth_attempts, request, admitted,
                   auth_passed>>

\* lines 83-84 and 281-282, and CORSMiddleware: the response that call_next
\* returned is returned as it is
PassResponse ==
    /\ \/ Outbound("RequestSizeMiddleware")
       \/ Outbound("RateLimitMiddleware")
       \/ Outbound("CORSMiddleware")
    /\ layer' = layer - 1
    /\ UNCHANGED <<now, request_counts, auth_attempts, request,
                   http_response, admitted, auth_passed>>

\* the response has left the application
Delivered == layer = CLIENT /\ http_response # NoHttpResponse

-----------------------------------------------------------------------------
(* The route handler chat_with_advisor of main.py.  The authenticated user  *)
(* is what the dependency get_current_user hands to the handler; the        *)
(* orchestration engine is the call of process_chat_request, whose result   *)
(* is a dict or an exception.                                               *)

\* /chat requests handled in one run
MaxChats == 2

HTTP_400_BAD_REQUEST == 400
HTTP_201_CREATED == 201
HTTP_403_FORBIDDEN == 403
HTTP_500_INTERNAL_SERVER_ERROR == 500

\* ChatRequest.user_id has min_length=1 (main.py:72)
ChatUserIds == UserIds \ {""}

\* the bodies of the /chat requests of the model
ChatRequests == [question : {<<FAQ_Q1>>, <<KW_COURSE>>}, user_id : ChatUserIds]

\* current_user: the attribute is_demo may be missing (empty sequence)
CurrentUsers == [user_id : ChatUserIds, is_demo : {<<>>, <<TRUE>>, <<FALSE>>}]

\* what process_chat_request gives back to the handler
EngineResults ==
    { [kind |-> "dict",
       value |-> LLMResponse(<<"The answer is 42.">>, SRC_GENERAL,
                             GENERAL_CHAT)],
      [kind |-> "dict",
       value |-> LLMResponse(DEMO_MSG, SRC_DEMO, ANALYZE_PROGRESS)],
      [kind |-> "raise", value |-> NoResponse] }

DEMO_WARNING == <<"[ar:anta fi al-wad' al-tajribi]", ".">>

NoChat ==
    [pc |-> "idle", serial |-> 0,
     request |-> [question |-> <<>>, user_id |-> NONE],
     user |-> [user_id |-> NONE, is_demo |-> <<>>],
     status |-> 0, body |-> NoResponse, demo_warning |-> <<>>]

ChatAuthorized_Always(req, user) == TRUE

\* main.py:340: `if chat_request.user_id != current_user.user_id` is false
ChatAuthorized(req, user) == ~(req.user_id # user.user_id)

\* main.py:349
IsDemoUser(user) == user.is_demo # <<>> /\ user.is_demo[1]

ChatInit ==
    /\ chat = NoChat
    /\ engine_log = <<>>

\* a /chat request reaches chat_with_advisor, its token already resolved
ChatRequestArrives ==
    /\ chat.pc \in {"idle", "responded"}
    /\ chat.serial < MaxChats
    /\ \E req \in ChatRequests, u \in CurrentUsers :
        chat' = [NoChat EXCEPT !.pc = "authorize",
                               !.serial = chat.serial + 1,
                               !.request = req, !.user = u]
    /\ UNCHANGED engine_log

\* main.py:340-345: the authorization check
ChatAuthorize ==
    /\ chat.pc = "authorize"
    /\ chat' =
         IF ChatAuthorized(chat.request, chat.user)
         THEN [chat EXCEPT !.pc = "process"]
         ELSE [chat EXCEPT !.pc = "responded",
                           !.status = HTTP_403_FORBIDDEN]
    /\ UNCHANGED engine_log

\* main.py:349-377: the call of process_chat_request and the response
ChatProcess ==
    /\ chat.pc = "process"
    /\ engine_log' =
         Append(engine_log,
                [serial |-> chat.serial,
                 question |-> chat.request.question,
                 user_id |-> chat.request.user_id,
                 is_demo |-> IsDemoUser(chat.user),
                 current_user |-> chat.user.user_id])
    /\ \E r \in EngineResults :
        chat' =
          IF r.kind = "raise"
          THEN [chat EXCEPT !.pc = "responded",
                            !.status = HTTP_500_INTERNAL_SERVER_ERROR]
          ELSE [chat EXCEPT !.pc = "responded",
                            !.status = HTTP_200_OK,
                            !.body = r.value,
                            !.demo_warning =
                                IF IsDemoUser(chat.user)
                                THEN DEMO_WARNING ELSE <<>>]

-----------------------------------------------------------------------------
(* The route handler register_initial_admin of main.py, called by several   *)
(* clients at once: the handler is a plain `def`, each call runs on a       *)
(* worker thread with a session of its own (database.py:113-119) on the     *)
(* one users.db, and every query sees what the other calls have committed.  *)

\* simultaneous calls of /register/admin/initial
NumCallers == 2

Callers == 1..NumCallers

\* AdminCreate bodies of the model
AdminData == [user_id : {"admin1", "admin2"}, email : {"a1@x", "a2@x"}]

NoAdminData == [user_id |-> NONE, email |-> NONE]

IdleCall == [pc |-> "idle", admin_data |-> NoAdminData, status |-> 0]

\* the rows of the users table with role admin
Admins == {u \in users : u.role = "admin"}

\* database.py:27 and 31: user_id and email are unique columns
UniqueViolation(d) ==
    \E u \in users : u.user_id = d.user_id \/ u.email = d.email

AdminInit ==
    /\ users = {}
    /\ reg = [c \in Callers |-> IdleCall]

\* a call of register_initial_admin starts
RegisterInitialAdmin(c) ==
    /\ reg[c].pc = "idle"
    /\ \E d \in AdminData :
        reg' = [reg EXCEPT ![c] = [IdleCall EXCEPT !.pc = "query_admin",
                                                   !.admin_data = d]]
    /\ UNCHANGED users

\* main.py:151-156: the query for an existing admin
ExistingAdmin(c) ==
    /\ reg[c].pc = "query_admin"
    /\ IF Admins # {}
       THEN reg' = [reg EXCEPT ![c].pc = "done",
                               ![c].status = HTTP_403_FORBIDDEN]
       ELSE reg' = [reg EXCEPT ![c].pc = "query_user_id"]
    /\ UNCHANGED users

\* main.py:164-165
UserIdTaken(c) ==
    /\ reg[c].pc = "query_user_id"
    /\ IF \E u \in users : u.user_id = reg[c].admin_data.user_id
       THEN reg' = [reg EXCEPT ![c].pc = "done",
                               ![c].status = HTTP_400_BAD_REQUEST]
       ELSE reg' = [reg EXCEPT ![c].pc = "query_email"]
    /\ UNCHANGED users

\* main.py:168-169
EmailTaken(c) ==
    /\ reg[c].pc = "query_email"
    /\ IF \E u \in users : u.email = reg[c].admin_data.email
       THEN reg' = [reg EXCEPT ![c].pc = "done",
                               ![c].status = HTTP_400_BAD_REQUEST]
       ELSE reg' = [reg EXCEPT ![c].pc = "commit"]
    /\ UNCHANGED users

\* main.py:174-199: db.add and db.commit; a violated unique column makes
\* commit raise, which the handler answers with 500 after a rollback
CommitAdmin(c) ==
    /\ reg[c].pc = "commit"
    /\ IF UniqueViolation(reg[c].admin_data)
       THEN /\ reg' = [reg EXCEPT ![c].pc = "done",
                                  ![c].status =
                                      HTTP_500_INTERNAL_SERVER_ERROR]
            /\ UNCHANGED users
       ELSE /\ users' = users \cup
                 {[user_id |-> reg[c].admin_data.user_id,
                   email |-> reg[c].admin_data.email, role |-> "admin"]}
            /\ reg' = [reg EXCEPT ![c].pc = "done",
                                  ![c].status = HTTP_201_CREATED]

-----------------------------------------------------------------------------
(* The specifications *)

\* before anything runs: no invocation, no request
Start == Init /\ BridgeInit /\ HttpInit /\ ChatInit /\ AdminInit

\* one invocation of the engine, step by step
Next ==
    \/ ProcessChatRequest /\ UNCHANGED <<bridgeVars, httpVars, routeVars>>
    \/ FaqCheck /\ UNCHANGED <<bridgeVars, httpVars, routeVars>>
    \/ DetermineIntent /\ UNCHANGED <<bridgeVars, httpVars, routeVars>>
    \/ RouteQueryRag /\ UNCHANGED <<bridgeVars, httpVars, routeVars>>
    \/ GenerateRagAnswer /\ UNCHANGED <<bridgeVars, httpVars, routeVars>>
    \/ RouteAnalyzeProgress /\ UNCHANGED <<bridgeVars, httpVars, routeVars>>
    \/ GenerateProgressAnswer /\ UNCHANGED <<bridgeVars, httpVars, routeVars>>
    \/ RouteGraphQuery /\ UNCHANGED <<bridgeVars, httpVars, routeVars>>
    \/ RouteNone /\ UNCHANGED <<bridgeVars, httpVars, routeVars>>
    \/ GeneralChat /\ UNCHANGED <<bridgeVars, httpVars, routeVars>>
    \/ FallThrough /\ UNCHANGED <<bridgeVars, httpVars, routeVars>>
    \/ BridgeReturn /\ UNCHANGED <<bridgeVars, httpVars, routeVars>>
    \/ BridgeExcept /\ UNCHANGED <<bridgeVars, httpVars, routeVars>>

Spec == Start /\ [][Next]_vars

\* an invocation in progress is run to completion (loop.run_until_complete)
FairSpec == Spec /\ WF_vars(Step)

\* concurrent invocations of process_chat_request
BridgeNext ==
    \E i \in Invocations :
        \/ EnterProcessChatRequest(i)
                /\ UNCHANGED <<engineVars, httpVars, routeVars>>
        \/ NewEventLoop(i) /\ UNCHANGED <<engineVars, httpVars, routeVars>>
        \/ SetEventLoop(i) /\ UNCHANGED <<engineVars, httpVars, routeVars>>
        \/ RunUntilComplete(i) /\ UNCHANGED <<engineVars, httpVars, routeVars>>
        \/ PipelineEnds(i) /\ UNCHANGED <<engineVars, httpVars, routeVars>>
        \/ CloseLoop(i) /\ UNCHANGED <<engineVars, httpVars, routeVars>>
        \/ LeaveProcessChatRequest(i)
                /\ UNCHANGED <<engineVars, httpVars, routeVars>>

BridgeSpec == Start /\ [][BridgeNext]_vars

\* requests through the middleware stack
HttpNext ==
    \/ Tick /\ UNCHANGED <<engineVars, bridgeVars, routeVars>>
    \/ ReceiveRequest /\ UNCHANGED <<engineVars, bridgeVars, routeVars>>
    \/ CORSDispatch /\ UNCHANGED <<engineVars, bridgeVars, routeVars>>
    \/ RateLimitDispatch /\ UNCHANGED <<engineVars, bridgeVars, routeVars>>
    \/ RequestSizeDispatch /\ UNCHANGED <<engineVars, bridgeVars, routeVars>>
    \/ SecurityHeadersDispatch
            /\ UNCHANGED <<engineVars, bridgeVars, routeVars>>
    \/ Endpoint /\ UNCHANGED <<engineVars, bridgeVars, routeVars>>
    \/ SecurityHeadersReturn /\ UNCHANGED <<engineVars, bridgeVars, routeVars>>
    \/ PassResponse /\ UNCHANGED <<engineVars, bridgeVars, routeVars>>

HttpSpec == Start /\ [][HttpNext]_vars

\* /chat requests through chat_with_advisor, one after the other
ChatNext ==
    \/ ChatRequestArrives
            /\ UNCHANGED <<engineVars, bridgeVars, httpVars, adminVars>>
    \/ ChatAuthorize
            /\ UNCHANGED <<engineVars, bridgeVars, httpVars, adminVars>>
    \/ ChatProcess /\ UNCHANGED <<engineVars, bridgeVars, httpVars, adminVars>>

ChatSpec == Start /\ [][ChatNext]_vars

\* concurrent calls of register_initial_admin
AdminNext ==
    \E c \in Callers :
        \/ RegisterInitialAdmin(c)
                /\ UNCHANGED <<engineVars, bridgeVars, httpVars, chatVars>>
        \/ ExistingAdmin(c)
                /\ UNCHANGED <<engineVars, bridgeVars, httpVars, chatVars>>
        \/ UserIdTaken(c)
                /\ UNCHANGED <<engineVars, bridgeVars, httpVars, chatVars>>
        \/ EmailTaken(c)
                /\ UNCHANGED <<engineVars, bridgeVars, httpVars, chatVars>>
        \/ CommitAdmin(c)
                /\ UNCHANGED <<engineVars, bridgeVars, httpVars, chatVars>>

AdminSpec == Start /\ [][AdminNext]_vars

TypeOK ==
    /\ pc \in PcValues
    /\ loop \in {"none", "running", "closed"}
    /\ cascades \in Nat
    /\ returned \in Nat

-----------------------------------------------------------------------------
(* Properties *)

\* process_agentic_query has returned (with `response`)
Returned == pc \in {"returned", "done"} /\ exc = NoExc

\* C1: when the question is exactly a key of the FAQ table, the invocation
\* makes no call at all (no classifier, gateway or collaborator call) and
\* its response is the table's answer with source "FAQ Database" and intent
\* query_rag.
C1_FaqShortcutMakesNoCall ==
    question \in {<<FAQ_Q1>>, <<FAQ_Q2>>} =>
        /\ calls = <<>>
        /\ pc \notin {"classify", "route", "gen_rag", "gen_progress",
                      "general", "raised"}
        /\ Returned =>
            /\ response.answer = FAQ_DATABASE[question]
            /\ response.source = "FAQ Database"
            /\ response.intent = QUERY_RAG
        /\ pc = "done" => result = response

C1_Witness ==
    /\ pc = "done"
    /\ question = <<FAQ_Q1>>
    /\ result.answer = <<"[ar:akhir yawm huwa 20 fibrayir 2025]", ".">>
    /\ result.source = "FAQ Database"

\* C2 as stated: determine_intent returns one of query_rag,
\* analyze_progress, graph_query, general_chat and never simulate_gpa.
\* (At pc = "route" the local `intent` is the value determine_intent returned.)
C2_ClassifierNeverSimulateGpa ==
    pc = "route" =>
        intent \in {QUERY_RAG, ANALYZE_PROGRESS, GRAPH_QUERY, GENERAL_CHAT}

\* C2 amended: determine_intent returns one of the five members of
\* valid_intents; it returns the normalized gateway text when that is a
\* member (simulate_gpa included) and general_chat otherwise.
C2_ClassifierReturnsValidIntent ==
    pc = "route" =>
        /\ intent \in {QUERY_RAG, ANALYZE_PROGRESS, SIMULATE_GPA, GRAPH_QUERY,
                       GENERAL_CHAT}
        /\ intent = SIMULATE_GPA <=> classified = SIMULATE_GPA
        /\ intent # GENERAL_CHAT => intent = classified

C2_Witness ==
    /\ pc = "route"
    /\ intent = SIMULATE_GPA
    /\ outcomes = <<"ok">>

\* C3: when the normalized classifier output is no valid intent name (also
\* when the gateway returned a canned failure message), the classifier yields
\* general_chat, the general_chat branch answers, and the response has source
\* "LLM (General)" and intent general_chat; no error response is produced.
C3_InvalidIntentFailsOpen ==
    (Len(calls) >= 1 /\ classified \notin valid_intents) =>
        /\ intent = GENERAL_CHAT
        /\ pc \in {"route", "general", "returned", "done"}
        /\ exc = NoExc
        /\ cascades = 0
        /\ Returned =>
            /\ response.source = "LLM (General)"
            /\ response.intent = GENERAL_CHAT
            /\ calls = <<CALL_CLASSIFY, CALL_GENERAL>>
        /\ pc = "done" => result = response

C3_Witness ==
    /\ pc = "done"
    /\ outcomes = <<"timeout", "ok">>
    /\ classified \notin valid_intents
    /\ result.source = "LLM (General)"
    /\ result.intent = GENERAL_CHAT

\* the classifier said query_rag and the Document Retriever returned an
\* empty context
RagEmptyContext ==
    /\ classified = QUERY_RAG
    /\ Len(calls) >= 2
    /\ calls[2] = CALL_DOCUMENTS
    /\ outcomes[2] = "ok"
    /\ collab.context_str = <<>>

\* C4 as stated: query_rag with an empty retrieved context ends with intent
\* general_chat and source "LLM (General)", and the invocation makes exactly
\* one generation-gateway call in total.
C4_EmptyContextOneGatewayCallInTotal ==
    (RagEmptyContext /\ Returned) =>
        /\ response.intent = GENERAL_CHAT
        /\ response.source = "LLM (General)"
        /\ CountCalls(GatewayCalls) = 1

\* C4 amended: query_rag with an empty retrieved context ends with intent
\* general_chat and source "LLM (General)", and exactly one answer-producing
\* gateway call is made (the general_chat one, none in the query_rag
\* branch); with the classifier's own call the invocation makes two gateway
\* calls in total.
C4_EmptyContextOneAnswerCall ==
    RagEmptyContext =>
        /\ pc \in {"general", "returned", "done"}
        /\ CALL_RAG \notin {calls[i] : i \in 1..Len(calls)}
        /\ Returned =>
            /\ response.intent = GENERAL_CHAT
            /\ response.source = "LLM (General)"
            /\ CountCalls(AnswerCalls) = 1
            /\ CountCalls(GatewayCalls) = 2
            /\ calls = <<CALL_CLASSIFY, CALL_DOCUMENTS, CALL_GENERAL>>

C4_Witness ==
    /\ pc = "done"
    /\ RagEmptyContext
    /\ result.intent = GENERAL_CHAT
    /\ result.source = "LLM (General)"

\* the classifier said analyze_progress and the demo flag is set or the
\* identity is absent
DemoAnalyzeProgress ==
    /\ classified = ANALYZE_PROGRESS
    /\ Len(calls) >= 1
    /\ is_demo \/ effective_user_id \in {NONE, ""}

\* C5 as stated: analyze_progress with the demo flag set or no identity
\* returns the restriction message with source "Demo Mode" and intent
\* analyze_progress, with zero calls to the Progress Analyzer and zero calls
\* to the generation gateway.
C5_DemoZeroGatewayCalls ==
    (DemoAnalyzeProgress /\ Returned) =>
        /\ response = LLMResponse(DEMO_MSG, "Demo Mode", ANALYZE_PROGRESS)
        /\ CountCalls({CALL_PROGRESS}) = 0
        /\ CountCalls(GatewayCalls) = 0

\* C5 amended: analyze_progress with the demo flag set or no identity
\* returns the restriction message with source "Demo Mode" and intent
\* analyze_progress, with zero calls to the Progress Analyzer and no
\* gateway call for the answer: the classifier's call is the only call of
\* the invocation.
C5_DemoNoAnalyzerNoAnswerCall ==
    DemoAnalyzeProgress =>
        /\ calls = <<CALL_CLASSIFY>>
        /\ pc \in {"route", "returned", "done"}
        /\ Returned =>
            response = LLMResponse(DEMO_MSG, "Demo Mode", ANALYZE_PROGRESS)
        /\ pc = "done" => result = response

C5_WitnessNoIdentity ==
    /\ pc = "done"
    /\ classified = ANALYZE_PROGRESS
    /\ ~is_demo
    /\ user_id = ""
    /\ result.source = "Demo Mode"

C5_WitnessDemoFlag ==
    /\ pc = "done"
    /\ classified = ANALYZE_PROGRESS
    /\ is_demo
    /\ user_id = "S1"
    /\ result.answer = DEMO_MSG

\* a response dict with its three fields set
WellFormed(r) ==
    /\ DOMAIN r = {"answer", "source", "intent"}
    /\ r.source # NONE
    /\ r.intent # <<>>

SomeGatewayTimeout ==
    \E i \in 1..Len(calls) : calls[i] \in GatewayCalls /\ outcomes[i] = "timeout"

AnswerCallTimedOut ==
    /\ Len(calls) >= 1
    /\ calls[Len(calls)] \in AnswerCalls
    /\ outcomes[Len(calls)] = "timeout"

\* C6 as stated: if a gateway call of the invocation times out, the
\* invocation returns a well-formed response whose answer contains the canned
\* timeout text.
C6_TimeoutAnswerHasTimeoutText ==
    (pc = "done" /\ SomeGatewayTimeout) =>
        /\ WellFormed(result)
        /\ IsInfix(TIMEOUT_MSG, result.answer)

\* C6 amended: if a gateway call of the invocation times out, the invocation
\* still returns a well-formed response and never fails. When the timed-out
\* call is the answer-producing one, the answer is the canned timeout text;
\* when it is the classifier's call, the request is answered by the
\* general_chat branch (source "LLM (General)", intent general_chat) with
\* whatever its own gateway call returns.
C6_TimeoutStillAnswers ==
    SomeGatewayTimeout =>
        /\ pc \notin {"raised", "crashed"}
        /\ pc = "done" =>
            /\ WellFormed(result)
            /\ returned = 1
            /\ AnswerCallTimedOut => result.answer = TIMEOUT_MSG
            /\ outcomes[1] = "timeout" =>
                /\ calls = <<CALL_CLASSIFY, CALL_GENERAL>>
                /\ result.source = "LLM (General)"
                /\ result.intent = GENERAL_CHAT

C6_Witness ==
    /\ pc = "done"
    /\ calls = <<CALL_CLASSIFY, CALL_DOCUMENTS, CALL_RAG>>
    /\ outcomes = <<"ok", "ok", "timeout">>
    /\ result.answer = TIMEOUT_MSG

\* the classifier said graph_query, the question holds both keywords and the
\* Graph Querier returned a non-empty skill list
GraphSkillsFound ==
    /\ classified = GRAPH_QUERY
    /\ \E i \in 1..Len(question) : question[i] = KW_SKILLS
    /\ \E i \in 1..Len(question) : question[i] = KW_COURSE
    /\ Len(calls) >= 2
    /\ outcomes[2] = "ok"
    /\ collab.skills # <<>>

\* the templated sentence for the skill lists of the model
ExpectedSkillsAnswer(skills) ==
    <<"[ar:al-muqarrar]", " ", "CS101", " ",
      "[ar:yudarris al-maharat al-taliya]", ":", " ">>
    \o <<skills[1]>>
    \o (IF Len(skills) >= 2 THEN <<",", " ", skills[2]>> ELSE <<>>)
    \o (IF Len(skills) >= 3 THEN <<",", " ", skills[3]>> ELSE <<>>)

\* C7 as stated: graph_query with both keywords and a non-empty skill list
\* returns the templated sentence with source "Graph DB" and intent
\* graph_query, without a gateway call for the answer.
C7_GraphAnswerSourceGraphDB ==
    (GraphSkillsFound /\ Returned) =>
        /\ response.answer = ExpectedSkillsAnswer(collab.skills)
        /\ response.source = "Graph DB"
        /\ response.intent = GRAPH_QUERY
        /\ CountCalls(AnswerCalls) = 0

\* C7 amended: graph_query with both keywords and a non-empty skill list
\* returns the templated sentence with source "Graph DB (Neo4j)" and intent
\* graph_query, without a gateway call for the answer.
C7_GraphAnswerTemplated ==
    GraphSkillsFound =>
        /\ calls = <<CALL_CLASSIFY, CALL_GRAPH>>
        /\ Returned
        /\ response.answer = ExpectedSkillsAnswer(collab.skills)
        /\ response.source = "Graph DB (Neo4j)"
        /\ response.intent = GRAPH_QUERY
        /\ pc = "done" => result = response

C7_Witness ==
    /\ pc = "done"
    /\ classified = GRAPH_QUERY
    /\ result.answer =
         <<"[ar:al-muqarrar]", " ", "CS101", " ",
           "[ar:yudarris al-maharat al-taliya]", ":", " ",
           "Logic", ",", " ", "Proofs">>
    /\ result.source = "Graph DB (Neo4j)"

\* the empty-context case of query_rag
CascadeFromRag ==
    /\ classified = QUERY_RAG
    /\ calls[2] = CALL_DOCUMENTS
    /\ outcomes[2] = "ok"
    /\ collab.context_str = <<>>

\* the no-match case and the empty-skills case of graph_query
CascadeFromGraph ==
    /\ classified = GRAPH_QUERY
    /\ \/ /\ ~(\E i \in 1..Len(question) : question[i] = KW_SKILLS)
          /\ Len(calls) = 1 \/ calls[2] = CALL_GENERAL
       \/ /\ ~(\E i \in 1..Len(question) : question[i] = KW_COURSE)
          /\ Len(calls) = 1 \/ calls[2] = CALL_GENERAL
       \/ /\ calls[2] = CALL_GRAPH
          /\ outcomes[2] = "ok"
          /\ collab.skills = <<>>

\* C8: within one invocation the transition primary -> cascaded (an
\* assignment of general_chat to `intent` after routing began) happens at most
\* once, only in the empty-context case of query_rag or the no-match or
\* empty-skills case of graph_query; once cascaded, the general_chat branch
\* runs (one general_chat gateway call, response labelled general_chat) and
\* nothing is re-routed again.
C8_CascadeAtMostOnce ==
    /\ cascades <= 1
    /\ cascades = 1 =>
        /\ CascadeFromRag \/ CascadeFromGraph
        /\ intent = GENERAL_CHAT
        /\ pc \in {"general", "returned", "done"}
        /\ CountCalls({CALL_GENERAL}) <= 1
        /\ CountCalls(CollaboratorCalls) <= 1
        /\ pc = "general" => CountCalls(AnswerCalls) = 0
        /\ Returned =>
            /\ calls[Len(calls)] = CALL_GENERAL
            /\ CountCalls(AnswerCalls) = 1
            /\ response.source = "LLM (General)"
            /\ response.intent = GENERAL_CHAT
    /\ (pc \in {"general", "returned", "done"} /\ exc = NoExc
        /\ classified \in {QUERY_RAG, GRAPH_QUERY}
        /\ CALL_GENERAL \in {calls[i] : i \in 1..Len(calls)}) => cascades = 1

C8_Witness ==
    /\ pc = "done"
    /\ cascades = 1
    /\ classified = GRAPH_QUERY
    /\ calls = <<CALL_CLASSIFY, CALL_GRAPH, CALL_GENERAL>>
    /\ result.intent = GENERAL_CHAT

\* the intent that names a branch of the router; no intent names the FAQ
\* shortcut or the fall-through return
BranchIntent(p) ==
    CASE p = "query_rag" -> QUERY_RAG
      [] p = "analyze_progress" -> ANALYZE_PROGRESS
      [] p = "graph_query" -> GRAPH_QUERY
      [] p = "general_chat" -> GENERAL_CHAT
      [] OTHER -> <<>>

\* C9 as stated: in every response of process_agentic_query the intent field
\* names the branch that produced the answer.
C9_IntentNamesProducingBranch ==
    Returned => response.intent = BranchIntent(producer)

\* C9 amended: in every response produced by a branch of the router
\* (query_rag, analyze_progress, graph_query, general_chat) the intent field
\* names that branch, also after a cascade, when it differs from the
\* classifier's output; the FAQ shortcut labels its response query_rag and
\* the fall-through return labels its response "unknown".
C9_IntentNamesRouterBranch ==
    Returned =>
        /\ producer \in {"query_rag", "analyze_progress", "graph_query",
                         "general_chat"} =>
                response.intent = BranchIntent(producer)
        /\ producer = "faq" => response.intent = QUERY_RAG
        /\ producer = "fallthrough" => response.intent = UNKNOWN
        /\ producer # NONE
        /\ cascades = 1 =>
            /\ response.intent = GENERAL_CHAT
            /\ response.intent # classified

C9_Witness ==
    /\ pc = "done"
    /\ classified = QUERY_RAG
    /\ producer = "general_chat"
    /\ calls = <<CALL_CLASSIFY, CALL_DOCUMENTS, CALL_GENERAL>>
    /\ result.intent = GENERAL_CHAT

\* how far an invocation has come
PcRank(p) ==
    CASE p = "idle" -> 0
      [] p = "faq" -> 1
      [] p = "classify" -> 2
      [] p = "route" -> 3
      [] p \in {"gen_rag", "gen_progress", "general"} -> 4
      [] p \in {"returned", "raised"} -> 5
      [] p \in {"done", "crashed"} -> 6

\* C10: every invocation of process_chat_request ends with exactly one
\* returned {answer, source, intent} response, whatever the gateway and the
\* collaborators do; nothing is raised to the caller.  Termination: an
\* invocation in progress can always take a step, and every step brings it
\* strictly closer to the return.
C10_EveryInvocationReturnsOneResponse ==
    /\ [](/\ pc # "crashed"
          /\ pc = "done" => (returned = 1 /\ WellFormed(result)
                             /\ loop = "closed")
          /\ pc # "done" => (returned = 0 /\ result = NoResponse)
          /\ pc \notin {"idle", "done"} => ENABLED Step)
    /\ [][PcRank(pc') > PcRank(pc)]_vars

C10_Witness ==
    /\ pc = "done"
    /\ calls = <<CALL_CLASSIFY, CALL_DOCUMENTS>>
    /\ outcomes = <<"ok", "raise">>
    /\ exc \in Exceptions
    /\ result.source = "Error"
    /\ result.intent = ERROR

\* the collaborator calls of the invocation that ended in an exception
CollaboratorRaised ==
    {i \in 1..Len(calls) :
        calls[i] \in CollaboratorCalls /\ outcomes[i] = "raise"}

\* C11 as stated: an exception raised by a collaborator (Progress Analyzer,
\* Document Retriever or Graph Querier) is caught at the routing branch that
\* made the call and converted there into an error-labelled response; it
\* never leaves process_agentic_query.
C11_CollaboratorExceptionCaughtAtBranch ==
    CollaboratorRaised # {} =>
        /\ exc = NoExc
        /\ pc \in {"returned", "done"}
        /\ response.source = "Error"

\* the Progress Analyzer was called and raised
AnalyzerRaised ==
    /\ Len(calls) >= 2
    /\ calls[2] = CALL_PROGRESS
    /\ outcomes[2] = "raise"

\* C12: when the intent is analyze_progress, the demo flag is clear, an
\* identity is present and the Progress Analyzer raises, the response has
\* source "Error", intent analyze_progress and an answer that embeds the text
\* of the exception; the gateway is not called for the answer and nothing is
\* propagated.
C12_AnalyzerExceptionBecomesErrorResponse ==
    AnalyzerRaised =>
        /\ classified = ANALYZE_PROGRESS
        /\ ~is_demo
        /\ effective_user_id \in {"S1", "S2"}
        /\ pc \in {"returned", "done"}
        /\ exc = NoExc
        /\ calls = <<CALL_CLASSIFY, CALL_PROGRESS>>
        /\ CountCalls(AnswerCalls) = 0
        /\ response.source = "Error"
        /\ response.intent = ANALYZE_PROGRESS
        /\ collab.exc \in Exceptions
        /\ IsInfix(<<collab.exc.type, "(", "'", collab.exc.msg, "'", ")">>,
                   response.answer)
        /\ pc = "done" => result = response

C12_Witness ==
    /\ pc = "done"
    /\ AnalyzerRaised
    /\ ~is_demo
    /\ user_id = "S1"
    /\ outcomes = <<"ok", "raise">>
    /\ result.source = "Error"
    /\ result.intent = ANALYZE_PROGRESS

\* the canned messages of generate_llm_response for a failure mode
CannedMessages(kind) ==
    CASE kind = "timeout" -> {TIMEOUT_MSG}
      [] kind = "request_error" -> {CONNECT_MSG(e) : e \in Exceptions}
      [] kind = "other_error" -> {UNEXPECTED_MSG(e) : e \in Exceptions}

FailureModes == {"timeout", "request_error", "other_error"}

WithLoop == {i \in Invocations : inv[i].loop # NoLoop}

\* C14: each invocation of process_chat_request constructs its own event
\* loop, runs the pipeline to completion in it and closes it on every exit
\* path, the normal return and the except branch alike; under every
\* interleaving of concurrent invocations no loop belongs to two invocations,
\* none is used again by a later one, and the loop the pipeline ran in is
\* the invocation's own.
C14_OwnLoopRunThenClosed ==
    /\ \A i \in Invocations :
        /\ inv[i].pc \in {"idle", "entered"} => inv[i].loop = NoLoop
        /\ inv[i].pc \notin {"idle", "entered"} =>
                inv[i].loop \in 1..Len(loops)
        /\ inv[i].pc \in {"constructed", "set"} =>
                loops[inv[i].loop] = "open"
        /\ inv[i].pc = "running" =>
            /\ loops[inv[i].loop] = "running"
            /\ inv[i].ran_in = inv[i].loop
            /\ thread_loop[inv[i].thread] = inv[i].loop
        /\ inv[i].pc \in {"finally", "closed", "done"} =>
                inv[i].ran_in = inv[i].loop
        /\ inv[i].pc \in {"closed", "done"} =>
                loops[inv[i].loop] = "closed"
        /\ inv[i].pc = "done" =>
                inv[i].result =
                    IF inv[i].ending = "response" THEN "response" ELSE "Error"
    /\ \A i, j \in WithLoop : i # j => inv[i].loop # inv[j].loop
    /\ Len(loops) = Cardinality(WithLoop)

C14_Witness ==
    /\ inv[1].pc = "closed"
    /\ inv[1].ending = "exception"
    /\ inv[2].pc = "running"
    /\ inv[1].thread # inv[2].thread
    /\ loops = <<"closed", "running">>

\* C15 as stated: concurrent invocations share no mutable state: no
\* invocation writes process-wide state that another invocation reads or
\* writes, so what an invocation returns is the same under every
\* interleaving (it follows from how its own pipeline ended).
C15_NoSharedMutableState ==
    /\ sys_path = InitialSysPath
    /\ \A i \in Invocations :
        inv[i].pc = "done" =>
            inv[i].result =
                IF inv[i].ending = "response" THEN "response" ELSE "Error"

\* C16 as stated: the intent field of every response of process_agentic_query
\* and of process_chat_request is a member of the closed set {query_rag,
\* analyze_progress, simulate_gpa, graph_query, general_chat}.
C16_IntentInClosedSet ==
    /\ response # NoResponse => response.intent \in valid_intents
    /\ result # NoResponse => result.intent \in valid_intents

\* C16 amended: the intent field of a response of process_agentic_query is
\* query_rag, analyze_progress, graph_query, general_chat or "unknown" (the
\* fall-through return, taken when the classifier says simulate_gpa); the
\* dict of process_chat_request carries the same intent, or "error" when an
\* exception left process_agentic_query.  simulate_gpa never labels a
\* response.
C16_IntentInExtendedSet ==
    /\ response # NoResponse =>
        /\ response.intent \in
             {QUERY_RAG, ANALYZE_PROGRESS, GRAPH_QUERY, GENERAL_CHAT, UNKNOWN}
        /\ response.intent = UNKNOWN <=> producer = "fallthrough"
        /\ producer = "fallthrough" <=> classified = SIMULATE_GPA
    /\ result # NoResponse =>
        /\ result.intent \in
             {QUERY_RAG, ANALYZE_PROGRESS, GRAPH_QUERY, GENERAL_CHAT, UNKNOWN,
              ERROR}
        /\ result.intent = ERROR <=> exc # NoExc
        /\ exc = NoExc => result.intent = response.intent

C16_Witness ==
    /\ pc = "done"
    /\ classified = SIMULATE_GPA
    /\ calls = <<CALL_CLASSIFY>>
    /\ result.intent = UNKNOWN
    /\ result.source = "Agent Error"

\* the Document Retriever was called and returned a non-empty context
RagContextFound ==
    /\ Len(calls) >= 2
    /\ calls[2] = CALL_DOCUMENTS
    /\ outcomes[2] = "ok"
    /\ collab.context_str # <<>>

\* C17: when the intent is query_rag and the Document Retriever returns a
\* non-empty context, the gateway is called exactly once for the answer (the
\* grounded prompt of the query_rag branch), nothing cascades, and the
\* response carries the retriever's source label and intent query_rag.
C17_GroundedAnswerFromContext ==
    RagContextFound =>
        /\ classified = QUERY_RAG
        /\ intent = QUERY_RAG
        /\ cascades = 0
        /\ exc = NoExc
        /\ pc \in {"gen_rag", "returned", "done"}
        /\ pc = "gen_rag" => calls = <<CALL_CLASSIFY, CALL_DOCUMENTS>>
        /\ pc \in {"returned", "done"} =>
            /\ calls = <<CALL_CLASSIFY, CALL_DOCUMENTS, CALL_RAG>>
            /\ CountCalls(AnswerCalls) = 1
            /\ producer = "query_rag"
            /\ response.source = collab.source_info
            /\ response.source = "regulations.pdf"
            /\ response.intent = QUERY_RAG
        /\ pc = "done" => result = response

C17_Witness ==
    /\ pc = "done"
    /\ RagContextFound
    /\ calls = <<CALL_CLASSIFY, CALL_DOCUMENTS, CALL_RAG>>
    /\ outcomes = <<"ok", "ok", "ok">>
    /\ result.source = "regulations.pdf"
    /\ result.intent = QUERY_RAG
    /\ cascades = 0

\* C18 as stated: the security headers are on every response of the
\* application, the 429 of the rate limiter and the 413 of the size limiter
\* included, with the middlewares registered in the order of main.py.
C18_EveryResponseCarriesSecurityHeaders ==
    Delivered => SECURITY_HEADERS \subseteq http_response.headers

\* the requests of one client that _check_rate_limit admitted at a clock
\* reading t with t0 <= t < t0 + RATE_LIMIT_WINDOW
AdmittedInWindow(ip, t0) ==
    Cardinality({k \in 1..Len(admitted[ip]) :
                    /\ admitted[ip][k] >= t0
                    /\ admitted[ip][k] < t0 + RATE_LIMIT_WINDOW})

\* C19: for every client IP and every sequence of requests with
\* non-decreasing clock readings, the requests _check_rate_limit admits in
\* any window of RATE_LIMIT_WINDOW seconds number at most
\* RATE_LIMIT_MAX_REQUESTS; and the requests of one IP never change the
\* decision for another: what the limiter holds for an IP, and decides
\* from, is that IP's own admitted requests of the last window.
C19_SlidingWindowPerClient ==
    \A ip \in ClientIPs :
        /\ \A t0 \in 0..MaxTime :
              AdmittedInWindow(ip, t0) <= RATE_LIMIT_MAX_REQUESTS
        /\ InWindow(request_counts[ip], now) = InWindow(admitted[ip], now)
        /\ \A k \in 1..Len(request_counts[ip]) : request_counts[ip][k] <= now

C19_Witness ==
    /\ Delivered
    /\ request.ip = IP1
    /\ request.path = "/chat"
    /\ http_response.status = 429
    /\ Len(admitted[IP1]) > RATE_LIMIT_MAX_REQUESTS
    /\ AdmittedInWindow(IP1, now) = RATE_LIMIT_MAX_REQUESTS
    /\ admitted[IP2] # <<>>
    /\ admitted[IP2][Len(admitted[IP2])] = now

\* the keyword heuristic of the graph_query branch, on the question
BothKeywords ==
    /\ \E i \in 1..Len(question) : question[i] = "maharat"
    /\ \E i \in 1..Len(question) : question[i] = "muqarrar"

\* graph_query was classified and the branch fell back: no keyword match,
\* or an empty skill list
GraphQueryFallsBack ==
    /\ classified = GRAPH_QUERY
    /\ pc \in {"general", "returned", "done"}
    /\ \/ ~BothKeywords
       \/ /\ Len(calls) >= 2
          /\ calls[2] = CALL_GRAPH
          /\ outcomes[2] = "ok"
          /\ collab.skills = <<>>

\* C20: when the intent is graph_query and the keyword heuristic does not
\* match, or the Graph Querier returns an empty skill list, the request
\* cascades to general_chat: the Graph Querier is called only if the
\* heuristic matched, the gateway is called once for the answer, and the
\* response has source "LLM (General)" and intent general_chat.
C20_GraphQueryCascadesToGeneralChat ==
    /\ classified = GRAPH_QUERY =>
        (CountCalls({CALL_GRAPH}) =
            IF BothKeywords /\ pc \notin {"route"} THEN 1 ELSE 0)
    /\ GraphQueryFallsBack =>
        /\ cascades = 1
        /\ intent = GENERAL_CHAT
        /\ exc = NoExc
        /\ pc = "general" => CountCalls(AnswerCalls) = 0
        /\ pc \in {"returned", "done"} =>
            /\ calls[Len(calls)] = CALL_GENERAL
            /\ CountCalls(AnswerCalls) = 1
            /\ CountCalls(GatewayCalls) = 2
            /\ response.source = "LLM (General)"
            /\ response.intent = GENERAL_CHAT
        /\ pc = "done" => result = response

C20_Witness ==
    /\ pc = "done"
    /\ classified = GRAPH_QUERY
    /\ ~BothKeywords
    /\ calls = <<CALL_CLASSIFY, CALL_GENERAL>>
    /\ result.source = "LLM (General)"
    /\ result.intent = GENERAL_CHAT

\* positions of the call log holding a call of the set S
CallPositions(S) == {i \in 1..Len(calls) : calls[i] \in S}

\* C21: within one invocation the external calls are totally ordered: the
\* classifier's gateway call is the first call and has completed before any
\* collaborator call is issued, every collaborator call has completed before
\* the answer-producing gateway call is issued, and no call is issued while
\* another call of the invocation is still without its outcome.
C21_CallsTotallyOrdered ==
    /\ Len(outcomes) = Len(calls)
    /\ calls # <<>> => calls[1] = CALL_CLASSIFY
    /\ \A i \in CallPositions({CALL_CLASSIFY}) :
        \A j \in CallPositions(CollaboratorCalls \cup AnswerCalls) : i < j
    /\ \A i \in CallPositions(CollaboratorCalls) :
        \A j \in CallPositions(AnswerCalls) : i < j

C21_Witness ==
    /\ pc = "done"
    /\ calls = <<CALL_CLASSIFY, CALL_DOCUMENTS, CALL_RAG>>
    /\ outcomes = <<"ok", "ok", "ok">>
    /\ result.source = "regulations.pdf"

\* C22: no retries and bounded calls: an invocation makes at most two
\* generation-gateway calls (one for classification, at most one for the
\* answer) and at most one collaborator call, also when a call fails; no
\* call of the log is issued a second time, whatever its outcome was.
C22_BoundedCallsNoRetry ==
    /\ CountCalls(GatewayCalls) <= 2
    /\ CountCalls({CALL_CLASSIFY}) <= 1
    /\ CountCalls(AnswerCalls) <= 1
    /\ CountCalls(CollaboratorCalls) <= 1
    /\ \A i, j \in 1..Len(calls) : calls[i] = calls[j] => i = j
    /\ \A i \in 1..Len(outcomes) :
        outcomes[i] # "ok" =>
            \A j \in 1..Len(calls) : j > i => calls[j] # calls[i]

C22_Witness ==
    /\ pc = "done"
    /\ calls = <<CALL_CLASSIFY, CALL_DOCUMENTS, CALL_GENERAL>>
    /\ outcomes = <<"ok", "ok", "timeout">>
    /\ result.answer = TIMEOUT_MSG

\* the fall-through return of process_agentic_query (line 332)
IsFallThroughResponse(r) ==
    r.source = "Agent Error" /\ r.intent = UNKNOWN

\* C26: process_agentic_query returns the fall-through response (source
\* "Agent Error", intent "unknown") if and only if the classifier's
\* normalized output is simulate_gpa; in that case the classifier's call is
\* the only call of the invocation: no collaborator is called and no
\* answer-producing gateway call is made.
C26_FallThroughIffSimulateGpa ==
    /\ Returned =>
        (IsFallThroughResponse(response) <=> classified = SIMULATE_GPA)
    /\ classified = SIMULATE_GPA =>
        /\ calls = <<CALL_CLASSIFY>>
        /\ pc \notin {"gen_rag", "gen_progress", "raised", "crashed"}
        /\ pc = "done" => IsFallThroughResponse(result)

C26_Witness ==
    /\ pc = "returned"
    /\ classified = SIMULATE_GPA
    /\ outcomes = <<"ok">>
    /\ response = LLMResponse(AGENT_ERROR_MSG, "Agent Error", UNKNOWN)
    /\ intent = SIMULATE_GPA

\* C27: demo-mode noninterference.  When is_demo is true process_chat_request
\* passes no identity into the pipeline and the Progress Analyzer is never
\* called; the dict it returns is the one it returns for every other user_id
\* with the same question and the same replies of the gateway and of the
\* collaborators.
C27_DemoNoninterference ==
    /\ pc = "done" =>
        result = process_chat_request(question, user_id, is_demo, replies)
    /\ (is_demo /\ pc # "idle") =>
        /\ effective_user_id = NONE
        /\ CountCalls({CALL_PROGRESS}) = 0
        /\ pc = "done" =>
            \A u \in UserIds :
                process_chat_request(question, u, TRUE, replies) = result

C27_Witness ==
    /\ pc = "done"
    /\ is_demo
    /\ user_id = "S2"
    /\ classified = ANALYZE_PROGRESS
    /\ calls = <<CALL_CLASSIFY>>
    /\ process_chat_request(question, "S1", TRUE, replies) = result

\* position of RateLimitMiddleware in the stack
RateLimitLayer ==
    CHOOSE k \in 1..Len(MiddlewareStack) :
        MiddlewareStack[k] = "RateLimitMiddleware"

\* the requests of one client to the authentication paths that
\* RateLimitMiddleware handed to call_next at a clock reading t with
\* t0 <= t < t0 + RATE_LIMIT_WINDOW
AuthPassedInWindow(ip, t0) ==
    Cardinality({k \in 1..Len(auth_passed[ip]) :
                    /\ auth_passed[ip][k] >= t0
                    /\ auth_passed[ip][k] < t0 + RATE_LIMIT_WINDOW})

\* the request in flight is below RateLimitMiddleware, or its response
\* comes from below it
BelowRateLimit ==
    /\ layer # CLIENT
    /\ \/ layer > RateLimitLayer
       \/ http_response.from \in {"RequestSizeMiddleware", "router"}

\* C23: for every client IP at most RATE_LIMIT_AUTH_MAX requests to the
\* authentication paths are let through to the application within any
\* window of RATE_LIMIT_WINDOW seconds; an attempt beyond that is answered
\* 429 by the middleware and never reaches the layers below it.
C23_AuthAttemptsBounded ==
    /\ \A ip \in ClientIPs :
        \A t0 \in 0..MaxTime :
            AuthPassedInWindow(ip, t0) <= RATE_LIMIT_AUTH_MAX
    /\ (BelowRateLimit /\ request.path \in AUTH_PATHS) =>
        /\ auth_passed[request.ip] # <<>>
        /\ auth_passed[request.ip][Len(auth_passed[request.ip])] = now
    /\ http_response.from = "RateLimitMiddleware" =>
        /\ http_response.status = 429
        /\ layer <= RateLimitLayer

C23_Witness ==
    /\ Delivered
    /\ request.ip = IP1
    /\ request.path = "/token"
    /\ http_response.status = 429
    /\ now = 1
    /\ auth_passed[IP1] = <<0>>
    /\ request_counts[IP1] = <<0>>

\* RateLimitMiddleware answers the request in flight itself, with 429
RateLimitRejects ==
    /\ Inbound("RateLimitMiddleware")
    /\ http_response' # NoHttpResponse

\* RateLimitMiddleware hands the request in flight to call_next
RateLimitLetsThrough ==
    /\ Inbound("RateLimitMiddleware")
    /\ layer' = layer + 1

\* the list of the client held no more entries after the step than before,
\* and none the step wrote
NoEntryGained(old, new) == new \in {old, InWindow(old, now)}

\* C28 as stated: a request the rate limiter rejects is not recorded: on a
\* rejection neither timestamp list of the client gains an entry.
C28_RejectedRequestNotRecorded ==
    [][RateLimitRejects =>
        /\ NoEntryGained(request_counts[request.ip],
                         request_counts'[request.ip])
        /\ NoEntryGained(auth_attempts[request.ip],
                         auth_attempts'[request.ip])]_vars

\* C28 amended: a request rejected by _check_rate_limit adds no entry to
\* request_counts and a request rejected by _check_auth_rate_limit adds no
\* entry to either list, so a request to a path outside the authentication
\* paths is let through exactly when fewer than RATE_LIMIT_MAX_REQUESTS
\* admitted requests of the client are younger than the window, however
\* many rejected requests were sent meanwhile.  A request to an
\* authentication path that _check_auth_rate_limit admits and
\* _check_rate_limit then rejects stays recorded in auth_attempts.
C28_RejectionKeepsOwnListOnly ==
    [][Inbound("RateLimitMiddleware") =>
        LET ip == request.ip
            is_auth == request.path \in AUTH_PATHS
            auth_full ==
                Len(InWindow(auth_attempts[ip], now)) >= RATE_LIMIT_AUTH_MAX
            recent == Len(InWindow(admitted[ip], now))
        IN  /\ RateLimitRejects =>
                /\ NoEntryGained(request_counts[ip], request_counts'[ip])
                /\ admitted' = admitted
                /\ ~is_auth => auth_attempts' = auth_attempts
                /\ (is_auth /\ auth_full) =>
                    /\ NoEntryGained(auth_attempts[ip], auth_attempts'[ip])
                    /\ request_counts' = request_counts
                /\ (is_auth /\ ~auth_full) =>
                    auth_attempts'[ip] =
                        Append(InWindow(auth_attempts[ip], now), now)
            /\ ~is_auth =>
                (RateLimitLetsThrough <=> recent < RATE_LIMIT_MAX_REQUESTS)
            /\ is_auth =>
                (RateLimitLetsThrough <=>
                    ~auth_full /\ recent < RATE_LIMIT_MAX_REQUESTS)]_vars

C28_Witness ==
    /\ Delivered
    /\ request.ip = IP1
    /\ request.path = "/chat"
    /\ http_response.status = 429
    /\ now = 1
    /\ request_counts[IP1] = <<0, 0>>
    /\ admitted[IP1] = <<0, 0>>
    /\ auth_attempts[IP1] = <<>>

\* the calls of process_chat_request made for the request being handled
EngineCallsOfRequest ==
    {k \in 1..Len(engine_log) : engine_log[k].serial = chat.serial}

\* C24: chat_with_advisor rejects with 403 every request whose user_id
\* differs from the authenticated user's id, and then process_chat_request
\* is not invoked for it; the engine is only ever invoked with the
\* authenticated user's own id.
C24_ChatOnlyForOwnUserId ==
    /\ \A k \in 1..Len(engine_log) :
        engine_log[k].user_id = engine_log[k].current_user
    /\ chat.request.user_id # chat.user.user_id =>
        /\ EngineCallsOfRequest = {}
        /\ chat.pc \in {"authorize", "responded"}
        /\ chat.pc = "responded" => chat.status = 403
    /\ (chat.pc = "responded" /\ chat.status = 403) =>
        chat.request.user_id # chat.user.user_id
    /\ (chat.pc = "responded" /\ chat.status # 403) =>
        Cardinality(EngineCallsOfRequest) = 1

C24_Witness ==
    /\ chat.pc = "responded"
    /\ chat.serial = 2
    /\ chat.request.user_id = "S2"
    /\ chat.user.user_id = "S1"
    /\ chat.status = 403
    /\ Len(engine_log) = 1
    /\ engine_log[1].user_id = "S1"

\* the calls of register_initial_admin that have answered with `code`
AnsweredWith(code) ==
    {c \in Callers : reg[c].pc = "done" /\ reg[c].status = code}

\* C25: register_initial_admin creates an admin account only if no admin
\* account exists: over every interleaving of concurrent calls that starts
\* from a database without admin, at most one call creates an admin and
\* every other call is rejected with 403.
C25_AtMostOneInitialAdmin ==
    /\ Cardinality(Admins) <= 1
    /\ Cardinality(AnsweredWith(201)) <= 1
    /\ \A c \in Callers :
        (reg[c].pc = "done" /\ AnsweredWith(201) \ {c} # {}) =>
            reg[c].status = 403

=============================================================================
